---- MODULE Spec2Model ----
(***************************************************************************)
(* A model of clustering_prot.py: the command-line checks, the size-group  *)
(* table, the list of frames to process, the per-frame cluster detection   *)
(* and contact accumulation, and the final statistics / oligomer folding.  *)
(* Every definition that models code carries the source lines it models.   *)
(* Floating-point percentages are kept as exact fractions (numerator       *)
(* matrix over a common denominator).                                      *)
(***************************************************************************)
EXTENDS Integers, Sequences, FiniteSets, TLC

VARIABLES
    pc,                      \* position of the script in its top-level sequence
    sys_argv,                \* option tokens present on the command line (input)
    args,                    \* the parsed options
    nx_cutoff_file,          \* TRUE when --nx_cutoff named a file
    cog_cutoff_values,       \* <<s1, s2>> -> cutoff, from the --nx_cutoff file
    res_used,                \* species index -> residues of the --res_used file
    groups_file,             \* lines of the --groups file (input)
    groups_number,           \* initialise_groups: number of lines
    groups_boundaries,       \* initialise_groups: g_index -> <<beg, end>>
    groups_sizes_dict,       \* initialise_groups: size -> g_index
    universe,                \* the structure / trajectory files (input)
    f_start,                 \* load_MDA_universe
    f_end,
    frames_to_process,
    frames_to_write,
    nb_frames_to_process,
    proteins_nb,             \* identify_proteins: s_index -> number of proteins
    proteins_multiplicity,   \* s_index -> multiplicity
    proteins_length,         \* s_index -> number of residues
    f_index,                 \* main loop: index of the next frame to process
    frames_nb,               \* f_index -> frame number
    frames_read,             \* history: trajectory indices read so far, in order
    frames_dist,             \* history: f_index -> distance matrix of the frame
    frames_close,            \* history: f_index -> residue contacts of the frame
    frames_clusters,         \* history: f_index -> clusters browsed (with label)
    size_writes,             \* history: f_index -> p_index -> writes of proteins_size
    proteins_size,
    proteins_group,
    proteins_nb_neighbours,
    proteins_ctcts_prot,
    proteins_ctcts_res,
    proteins_ctcts_res_size,
    proteins_ctcts_res_group,
    proteins_ctcts_res_lip_size,
    proteins_ctcts_res_lip_group,
    clusters_comp,
    cluster_sizes_sampled,   \* get_sizes_sampled
    cluster_sizes_sampled_TM,
    clusters_nb,             \* calculate_statistics: c_size -> f_index -> number
    clusters_pc,             \* c_size -> f_index -> % of the proteins
    clusters_nb_groups,      \* g_index -> f_index -> number
    clusters_pc_groups,      \* g_index -> f_index -> % of the proteins
    clusters_biggest,        \* 'nb', 'pc', 'size' -> f_index -> value
    clusters_mostrep,
    clusters_comp_avg,       \* c_index -> s_index -> average, in %
    clusters_comp_std,       \* c_index -> s_index -> x, for a deviation of sqrt(x) * 100
    cluster_groups_sampled_TM,
    clusters_comp_avg_group, \* g_index -> s_index -> average, in %
    clusters_comp_std_group, \* g_index -> s_index -> x, for a deviation of sqrt(x) * 100
    files_written,           \* history: the statistics files written at the end
    vmd_counter,             \* frames since the buffers of annotations were last written
    vmd_cluster_size,        \* buffer of the lines of sizes, one per frame
    vmd_cluster_group,       \* buffer of the lines of groups, one per frame
    output_xtc_annotate_cluster_size,  \* the lines of the file of this name
    output_xtc_annotate_cluster_group, \* the lines of the file of this name
    dbscan_dist_matrix,      \* detect_clusters_density: its argument (input)
    dbscan_groups            \* detect_clusters_density: its result

varsArgs == <<sys_argv, args, nx_cutoff_file, cog_cutoff_values, res_used>>

varsGroups == <<groups_file, groups_number, groups_boundaries, groups_sizes_dict>>

varsUniverse == <<universe, f_start, f_end, frames_to_process, frames_to_write,
                  nb_frames_to_process>>

varsProteins == <<proteins_nb, proteins_multiplicity, proteins_length>>

varsVmd == <<vmd_counter, vmd_cluster_size, vmd_cluster_group,
             output_xtc_annotate_cluster_size, output_xtc_annotate_cluster_group>>

varsLoop == <<f_index, frames_nb, frames_read, frames_dist, frames_close, frames_clusters,
              size_writes, varsVmd>>

varsAcc == <<proteins_size, proteins_group, proteins_nb_neighbours, proteins_ctcts_prot,
             proteins_ctcts_res, proteins_ctcts_res_size, proteins_ctcts_res_group,
             proteins_ctcts_res_lip_size, proteins_ctcts_res_lip_group, clusters_comp>>

varsStat == <<cluster_sizes_sampled, cluster_sizes_sampled_TM, clusters_nb, clusters_pc,
              clusters_nb_groups, clusters_pc_groups, clusters_biggest, clusters_mostrep,
              clusters_comp_avg, clusters_comp_std, cluster_groups_sampled_TM,
              clusters_comp_avg_group, clusters_comp_std_group, files_written>>

varsDensity == <<dbscan_dist_matrix, dbscan_groups>>

vars == <<pc, varsArgs, varsGroups, varsUniverse, varsProteins, varsLoop, varsAcc,
          varsStat, varsDensity>>

----
(* Generic helpers *)

Max(S) == CHOOSE x \in S : \A y \in S : y <= x

Min(S) == CHOOSE x \in S : \A y \in S : x <= y

EmptyDict == [k \in {} |-> 0]

\* Numbers that are not integers are kept as exact fractions num / den, den > 0,
\* in lowest terms
RECURSIVE GCD(_, _)
GCD(a, b) == IF b = 0 THEN a ELSE GCD(b, a % b)

Abs(x) == IF x < 0 THEN -x ELSE x

Sign(x) == IF x < 0 THEN -1 ELSE 1

Reduced(n, d, g) == [num |-> Sign(n) * (Abs(n) \div g), den |-> d \div g]

Frac(n, d) == Reduced(n, d, GCD(Abs(n), d))

FracAdd(x, y) == Frac(x.num * y.den + y.num * x.den, x.den * y.den)

FracSub(x, y) == Frac(x.num * y.den - y.num * x.den, x.den * y.den)

FracMul(x, y) == Frac(x.num * y.num, x.den * y.den)

FracDivInt(x, n) == Frac(x.num, x.den * n)

FracGreater(x, y) == x.num * y.den > y.num * x.den

----
(* Bounds of the model *)

\* Stand-in for the cap 100000 that the script gives an open-ended ('max')
\* group; every use of the cap in the script is a use of SizeCap here.
SizeCap == 8

\* Largest number of lines of a --groups file.
MaxGroups == 3

\* Number of proteins of a run.
NbProteins == 3

\* Number of frames processed by a run.
NbFrames == 2

\* Number of residues of one unit of a protein.
UnitLen == 2

----
(* initialise_groups: the --groups table *)

\* Offsets of a line's lower size from the previous line's upper size
\* (0: overlapping, 1: adjacent, 2: leaves a hole), and widths of a range
\* (-1: upper size below lower size).
GroupGaps == {0, 1, 2}

GroupWidths == {-1, 0, 3}

PrevEnd(t) ==
    IF t = <<>> THEN 0
    ELSE IF t[Len(t)].is_max THEN SizeCap ELSE t[Len(t)].end

NextLines(t) ==
    {[beg |-> PrevEnd(t) + g, end |-> PrevEnd(t) + g + w, is_max |-> FALSE] :
        g \in GroupGaps, w \in GroupWidths}
    \cup {[beg |-> PrevEnd(t) + g, end |-> 0, is_max |-> TRUE] : g \in GroupGaps}

RECURSIVE TablesOfLen(_)
TablesOfLen(n) ==
    IF n = 0 THEN {<<>>}
    ELSE UNION {{Append(t, l) : l \in NextLines(t)} : t \in TablesOfLen(n - 1)}

GroupTables == UNION {TablesOfLen(n) : n \in 1..MaxGroups}

\* lines 1344-1353: 'max' is replaced by the cap, anything else is read as int
ParseBoundaries(file) ==
    [g \in 0..(Len(file) - 1) |->
        <<file[g + 1].beg, IF file[g + 1].is_max THEN SizeCap ELSE file[g + 1].end>>]

BoundariesErrorSharedSizeAllowed(gb, n) ==
    \/ gb[0][2] < gb[0][1]
    \/ \E g \in 1..(n - 1) : gb[g][2] < gb[g][1] \/ gb[g][1] < gb[g - 1][2]

\* lines 1363-1377: the first range is checked alone, then every range against
\* itself and against the upper size of the previous one
BoundariesError(gb, n) ==
    \/ gb[0][2] < gb[0][1]
    \/ \E g \in 1..(n - 1) : gb[g][2] < gb[g][1] \/ gb[g][1] <= gb[g - 1][2]

\* lines 1380-1385: each size of each range is given the index of the range
RECURSIVE AssignGroups(_, _, _, _)
AssignGroups(d, gb, g, n) ==
    IF g >= n THEN d
    ELSE LET r == gb[g][1]..gb[g][2]
         IN AssignGroups([s \in (DOMAIN d) \cup r |-> IF s \in r THEN g ELSE d[s]],
                         gb, g + 1, n)

\* lines 1386-1387: sizes from 1 below the largest key that no range holds
FillBelow(d, n) ==
    LET missing == (1..(Max(DOMAIN d) - 1)) \ DOMAIN d
    IN [s \in (DOMAIN d) \cup missing |-> IF s \in missing THEN n ELSE d[s]]

FillAboveNoCap(d, n) == d

\* lines 1388-1390: sizes above the largest key, up to the cap
FillAbove(d, n) ==
    IF Max(DOMAIN d) # SizeCap
    THEN LET above == (Max(DOMAIN d) + 1)..SizeCap
         IN [s \in (DOMAIN d) \cup above |-> IF s \in above THEN n ELSE d[s]]
    ELSE d

BuildSizesDict(gb, n) == FillAbove(FillBelow(AssignGroups(EmptyDict, gb, 0, n), n), n)

\* lines 1311-1422 (colours and labels left out: they feed the plots only)
initialise_groups ==
    /\ pc = "initialise_groups"
    /\ LET n == Len(groups_file)
           gb == ParseBoundaries(groups_file)
       IN /\ groups_number' = n
          /\ groups_boundaries' = gb
          /\ IF BoundariesError(gb, n)
             THEN /\ pc' = "exit"
                  /\ groups_sizes_dict' = groups_sizes_dict
             ELSE /\ pc' = "struct"
                  /\ groups_sizes_dict' = BuildSizesDict(gb, n)
    /\ UNCHANGED <<groups_file, varsArgs, varsUniverse, varsProteins, varsLoop, varsAcc,
                   varsStat, varsDensity>>

----
(* identify_proteins: the proteins found in the structure file *)

\* line 1151
nb_species == Cardinality(DOMAIN proteins_nb)

Species == 0..(nb_species - 1)

RECURSIVE SumUpTo(_, _)
SumUpTo(f, n) == IF n <= 0 THEN 0 ELSE f[n - 1] + SumUpTo(f, n - 1)

\* line 1152
nb_proteins == SumUpTo(proteins_nb, nb_species)

Proteins == 0..(nb_proteins - 1)

\* lines 1177-1190: proteins are indexed species after species
proteins_boundaries(s) == <<SumUpTo(proteins_nb, s), SumUpTo(proteins_nb, s + 1)>>

prot_index2sindex(p) ==
    CHOOSE s \in Species : proteins_boundaries(s)[1] <= p /\ p < proteins_boundaries(s)[2]

\* lines 1145-1146
pres_oligomers == \E s \in Species : proteins_multiplicity[s] > 1

----
(* Matrices of residue contacts.  A matrix is kept as its numerators m over  *)
(* one denominator den: the value of entry ij is m[ij] / den.                *)

Cells(r, c) == (0..(r - 1)) \X (0..(c - 1))

Zeros(r, c) == [m |-> [ij \in Cells(r, c) |-> 0], r |-> r, c |-> c, den |-> 1]

RECURSIVE SumOver(_, _)
SumOver(f, S) ==
    IF S = {} THEN 0
    ELSE LET x == CHOOSE y \in S : TRUE IN f[x] + SumOver(f, S \ {x})

MatSum(X) == SumOver(X.m, DOMAIN X.m)

\* M[mask] += 1
AddMask(X, mask) ==
    [X EXCEPT !.m = [ij \in DOMAIN X.m |-> X.m[ij] + (IF mask[ij] THEN 1 ELSE 0)]]

\* mask.T
Transpose(mask) ==
    [ij \in {<<kl[2], kl[1]>> : kl \in DOMAIN mask} |-> mask[<<ij[2], ij[1]>>]]

\* np.sum(mask)
MaskSum(mask) == Cardinality({ij \in DOMAIN mask : mask[ij]})

Put(d, k, v) == [x \in (DOMAIN d) \cup {k} |-> IF x = k THEN v ELSE d[x]]

SpeciesPairs == {ss \in Species \X Species : ss[1] <= ss[2]}

Leaflets == {"upper", "lower"}

----
(* struct_time, struct_clusters, struct_proteins *)

\* line 1475, 1824: size given to the proteins of a cluster at the upper leaflet
UpperSize == 99999

\* line 1815: size and group given to the proteins of a cluster at the lower leaflet
LowerSize == -1

\* lines 1428-1521: the arrays and dictionaries as struct_time, struct_clusters
\* and struct_proteins create them
StructAcc ==
    [proteins_size |-> [f \in 0..(nb_frames_to_process - 1) |-> [p \in Proteins |-> 0]],
     proteins_group |->
         IF args.cluster_groups_file # "no"
         THEN [f \in 0..(nb_frames_to_process - 1) |-> [p \in Proteins |-> 0]]
         ELSE <<>>,
     proteins_nb_neighbours |->
         [f \in 0..(nb_frames_to_process - 1) |-> [p \in Proteins |-> [s \in Species |-> 0]]],
     proteins_ctcts_prot |-> [m |-> [ij \in Proteins \X Proteins |-> 0],
                              den |-> [p \in Proteins |-> 1]],
     proteins_ctcts_res |->
         [ss \in SpeciesPairs |-> Zeros(proteins_length[ss[1]], proteins_length[ss[2]])],
     proteins_ctcts_res_size |-> [ss \in SpeciesPairs |-> EmptyDict],
     proteins_ctcts_res_group |->
         [ss \in SpeciesPairs |->
             IF args.cluster_groups_file # "no"
             THEN [g \in 0..(groups_number - 1) |->
                      Zeros(proteins_length[ss[1]], proteins_length[ss[2]])]
             ELSE EmptyDict],
     proteins_ctcts_res_lip_size |-> [l \in Leaflets |-> [s \in Species |-> EmptyDict]],
     proteins_ctcts_res_lip_group |->
         [l \in Leaflets |-> [s \in Species |->
             IF args.cluster_groups_file # "no"
             THEN [g \in 0..(groups_number - 1) |-> Zeros(proteins_length[s], 1)]
             ELSE EmptyDict]],
     clusters_comp |-> EmptyDict,
     size_writes |-> [f \in 0..(nb_frames_to_process - 1) |-> [p \in Proteins |-> 0]]]

\* lines 1449-1466: the statistics of each frame, all zero
StructClusters ==
    [clusters_nb_groups |->
         IF args.cluster_groups_file # "no"
         THEN [g \in (-1)..(groups_number + 1) |->
                  [f \in 0..(nb_frames_to_process - 1) |-> 0]]
         ELSE EmptyDict,
     clusters_pc_groups |->
         IF args.cluster_groups_file # "no"
         THEN [g \in (-1)..(groups_number + 1) |->
                  [f \in 0..(nb_frames_to_process - 1) |-> Frac(0, 1)]]
         ELSE EmptyDict,
     clusters_biggest |->
         [nb |-> [f \in 0..(nb_frames_to_process - 1) |-> 0],
          pc |-> [f \in 0..(nb_frames_to_process - 1) |-> Frac(0, 1)],
          size |-> [f \in 0..(nb_frames_to_process - 1) |-> 0]],
     clusters_mostrep |->
         [nb |-> [f \in 0..(nb_frames_to_process - 1) |-> 0],
          pc |-> [f \in 0..(nb_frames_to_process - 1) |-> Frac(0, 1)],
          size |-> [f \in 0..(nb_frames_to_process - 1) |-> 0]]]

\* lines 1428-1521
struct_data ==
    /\ pc = "struct"
    /\ pc' = "frames"
    /\ f_index' = 0
    /\ frames_nb' = [f \in 0..(nb_frames_to_process - 1) |-> 0]
    /\ frames_read' = <<>>
    /\ frames_dist' = EmptyDict
    /\ frames_close' = EmptyDict
    /\ frames_clusters' = EmptyDict
    /\ size_writes' = StructAcc.size_writes
    /\ UNCHANGED varsVmd
    /\ clusters_comp' = StructAcc.clusters_comp
    /\ proteins_size' = StructAcc.proteins_size
    /\ proteins_group' = StructAcc.proteins_group
    /\ proteins_nb_neighbours' = StructAcc.proteins_nb_neighbours
    /\ proteins_ctcts_prot' = StructAcc.proteins_ctcts_prot
    /\ proteins_ctcts_res' = StructAcc.proteins_ctcts_res
    /\ proteins_ctcts_res_size' = StructAcc.proteins_ctcts_res_size
    /\ proteins_ctcts_res_group' = StructAcc.proteins_ctcts_res_group
    /\ proteins_ctcts_res_lip_size' = StructAcc.proteins_ctcts_res_lip_size
    /\ proteins_ctcts_res_lip_group' = StructAcc.proteins_ctcts_res_lip_group
    /\ clusters_nb_groups' = StructClusters.clusters_nb_groups
    /\ clusters_pc_groups' = StructClusters.clusters_pc_groups
    /\ clusters_biggest' = StructClusters.clusters_biggest
    /\ clusters_mostrep' = StructClusters.clusters_mostrep
    /\ UNCHANGED <<cluster_sizes_sampled, cluster_sizes_sampled_TM, clusters_nb, clusters_pc,
                   clusters_comp_avg, clusters_comp_std, cluster_groups_sampled_TM,
                   clusters_comp_avg_group, clusters_comp_std_group, files_written>>
    /\ UNCHANGED <<varsArgs, varsGroups, varsUniverse, varsProteins, varsDensity>>

----
(* The content of one frame, get_distances and the detection of clusters *)

\* lines 1538, 1549: distance of a protein to itself
SelfDistance == 100000

\* Distances between two proteins that a frame may hold.
Distances == {5, 15}

\* Distances between two proteins when the density detection is chosen: within
\* and beyond the default --db_radius.
DensityDistances == {10, 35}

FrameDistances == IF args.m_algorithm = "density" THEN DensityDistances ELSE Distances

ProteinPairs == {pq \in Proteins \X Proteins : pq[1] < pq[2]}

\* lines 1527-1551: symmetric, with SelfDistance on the diagonal
DistMatrices ==
    {[ij \in Proteins \X Proteins |->
        IF ij[1] = ij[2] THEN SelfDistance
        ELSE IF ij[1] < ij[2] THEN d[ij] ELSE d[<<ij[2], ij[1]>>]] :
     d \in [ProteinPairs -> FrameDistances]}

\* Residue pairs (row of the first protein, column of the second) found closer
\* than --res_contact, for proteins of r and c residues: none, the first residue
\* with the last one, or the last residue of the second protein with both ends
\* of the first.
ContactPatterns == {"none", "one", "two"}

ContactMask(pattern, r, c) ==
    [ij \in Cells(r, c) |->
        \/ pattern \in {"one", "two"} /\ ij = <<0, c - 1>>
        \/ pattern = "two" /\ ij = <<r - 1, c - 1>>]

\* What the trajectory can hold in a frame: the distances between proteins and
\* the residue contacts of any two proteins (lower index as rows).
FrameContents ==
    IF universe.motion = "still"
    THEN {[dist |-> d, close |-> "one"] :
            d \in {m \in DistMatrices : \A ij \in ProteinPairs : m[ij] = Max(FrameDistances)}}
    ELSE IF universe.motion = "drift"
    THEN {[dist |-> d, close |-> "one"] : d \in DistMatrices}
    ELSE {[dist |-> d, close |-> c] : d \in DistMatrices, c \in ContactPatterns}

\* distance_array(x_res_cog, y_res_cog) < args.res_contact
ResClose(fr, x, y) ==
    LET rx == proteins_length[prot_index2sindex(x)]
        ry == proteins_length[prot_index2sindex(y)]
    IN IF x <= y THEN ContactMask(fr.close, rx, ry)
       ELSE Transpose(ContactMask(fr.close, ry, rx))

\* dist_min_upper - dist_min_lower of residue r of protein p: a protein is below
\* the membrane centre, above it (one particle at equal distances), or across it
Delta(p, r) ==
    IF universe.delta[p] = "below" THEN 1
    ELSE IF universe.delta[p] = "above" THEN (IF r = 0 THEN 0 ELSE -1)
    ELSE IF r = 0 THEN 1 ELSE -1

CutoffBlockOwnSpecies(dist, s, ss) ==
    [a \in 1..(proteins_boundaries(s)[2] - proteins_boundaries(s)[1]) |->
        [b \in 1..(proteins_boundaries(ss)[2] - proteins_boundaries(ss)[1]) |->
            dist[<<proteins_boundaries(s)[1] + a - 1, proteins_boundaries(ss)[1] + b - 1>>]
                < cog_cutoff_values[<<s, s>>]]]

\* line 1604
CutoffBlock(dist, s, ss) ==
    [a \in 1..(proteins_boundaries(s)[2] - proteins_boundaries(s)[1]) |->
        [b \in 1..(proteins_boundaries(ss)[2] - proteins_boundaries(ss)[1]) |->
            dist[<<proteins_boundaries(s)[1] + a - 1, proteins_boundaries(ss)[1] + b - 1>>]
                < cog_cutoff_values[<<s, ss>>]]]

\* lines 1607-1611
RECURSIVE ConcatHorizontally(_, _, _)
ConcatHorizontally(dist, s, ss) ==
    IF ss = 0 THEN CutoffBlock(dist, s, 0)
    ELSE LET left == ConcatHorizontally(dist, s, ss - 1)
             right == CutoffBlock(dist, s, ss)
         IN [a \in DOMAIN left |-> left[a] \o right[a]]

\* lines 1614-1616
RECURSIVE ConcatVertically(_, _)
ConcatVertically(dist, s) ==
    IF s = 0 THEN ConcatHorizontally(dist, 0, nb_species - 1)
    ELSE ConcatVertically(dist, s - 1) \o ConcatHorizontally(dist, s, nb_species - 1)

\* lines 1599-1621
Connected(dist) ==
    IF nx_cutoff_file /\ nb_species > 1
    THEN ConcatVertically(dist, nb_species - 1)
    ELSE [i \in 1..nb_proteins |-> [j \in 1..nb_proteins |->
             dist[<<i - 1, j - 1>>] < args.nx_cutoff]]

detect_clusters_connectivity_with_memory(dist) ==
    [p \in Proteins |->
        {pp \in Proteins :
            \/ Connected(dist)[p + 1][pp + 1]
            \/ \E f \in DOMAIN frames_dist : Connected(frames_dist[f])[p + 1][pp + 1]}]

\* lines 1593-1625: the undirected graph of the non-zero entries of the matrix
detect_clusters_connectivity(dist) ==
    LET connected == Connected(dist)
    IN [p \in Proteins |->
           {pp \in Proteins : connected[p + 1][pp + 1] \/ connected[pp + 1][p + 1]}]

RECURSIVE SetToSortedSeq(_)
SetToSortedSeq(S) ==
    IF S = {} THEN <<>> ELSE <<Min(S)>> \o SetToSortedSeq(S \ {Min(S)})

plain_bfs_one_step(network, frontier, seen) ==
    seen \cup UNION {network[v] : v \in frontier}

\* networkx: breadth-first search from the nodes of frontier
RECURSIVE plain_bfs(_, _, _)
plain_bfs(network, frontier, seen) ==
    IF frontier = {} THEN seen
    ELSE LET next == (UNION {network[v] : v \in frontier}) \ seen
         IN plain_bfs(network, next, seen \cup next)

\* lines 1646, 1776: sorted(nx.connected_components(network)), each cluster with
\* its proteins by increasing index
RECURSIVE connected_components(_, _)
connected_components(network, unseen) ==
    IF unseen = {} THEN <<>>
    ELSE LET c == plain_bfs(network, {Min(unseen)}, {Min(unseen)})
         IN <<SetToSortedSeq(c)>> \o connected_components(network, unseen \ c)

----
(* process_clusters and process_clusters_TM.  The arrays and dictionaries    *)
(* they update are carried in one record; 'crashed' is set by the statement  *)
(* that raises, and what was written before it stays written.                *)

Acc ==
    [proteins_size |-> proteins_size,
     proteins_group |-> proteins_group,
     proteins_nb_neighbours |-> proteins_nb_neighbours,
     proteins_ctcts_prot |-> proteins_ctcts_prot,
     proteins_ctcts_res |-> proteins_ctcts_res,
     proteins_ctcts_res_size |-> proteins_ctcts_res_size,
     proteins_ctcts_res_group |-> proteins_ctcts_res_group,
     proteins_ctcts_res_lip_size |-> proteins_ctcts_res_lip_size,
     proteins_ctcts_res_lip_group |-> proteins_ctcts_res_lip_group,
     clusters_comp |-> clusters_comp,
     size_writes |-> size_writes,
     browsed |-> <<>>,
     tmp_comp |-> <<>>,
     tmp_pairs_treated |-> {},
     crashed |-> FALSE]

WithGroups == args.cluster_groups_file # "no"

SpeciesKey(ps, pps) == <<Min({ps, pps}), Max({ps, pps})>>

\* lines 1703-1706 (1893-1896): the rows are the residues of the protein whose
\* species comes first
PairMask(fr, p, pp) ==
    IF prot_index2sindex(p) < prot_index2sindex(pp)
    THEN ResClose(fr, p, pp)
    ELSE ResClose(fr, pp, p)

\* lines 1700, 1729 (1890, 1920)
CountNeighbour(a, f, p, pps) == [a EXCEPT !.proteins_nb_neighbours[f][p][pps] = @ + 1]

AddContactsFirstDropped(a, key, c_size, mask) ==
    [a EXCEPT
       !.proteins_ctcts_res[key] = AddMask(@, mask),
       !.proteins_ctcts_res_size[key] =
           IF c_size \in DOMAIN @
           THEN [@ EXCEPT ![c_size] = AddMask(@, mask)]
           ELSE Put(@, c_size, Zeros(proteins_length[key[1]], proteins_length[key[2]]))]

\* lines 1707-1714 (1897-1904), and 1720-1721 (1911-1912) with the transpose
AddContacts(a, key, c_size, mask) ==
    [a EXCEPT
       !.proteins_ctcts_res[key] = AddMask(@, mask),
       !.proteins_ctcts_res_size[key] =
           IF c_size \in DOMAIN @
           THEN [@ EXCEPT ![c_size] = AddMask(@, mask)]
           ELSE Put(@, c_size,
                    AddMask(Zeros(proteins_length[key[1]], proteins_length[key[2]]), mask))]

AddGroupContactsSkipped(a, key, g, mask) == a

\* lines 1715-1716 (1906-1907), and 1722-1723 (1913-1914) with the transpose
AddGroupContacts(a, key, g, mask) ==
    IF WithGroups
    THEN [a EXCEPT !.proteins_ctcts_res_group[key][g] = AddMask(@, mask)]
    ELSE a

AddHomoContactsMaskOnly(a, key, c_size, g, mask, ps, pps) == a

\* lines 1719-1723 (1910-1914): homo interactions
AddHomoContacts(a, key, c_size, g, mask, ps, pps) ==
    IF ps = pps
    THEN AddGroupContacts(AddContacts(a, key, c_size, Transpose(mask)),
                          key, g, Transpose(mask))
    ELSE a

ClosePairNotRecorded(a, f, p, pp, ps, nb) ==
    [a EXCEPT
       !.proteins_ctcts_prot.m[<<p, pp>>] = @ + nb,
       !.proteins_nb_neighbours[f][pp][ps] = @ + 1,
       !.proteins_ctcts_prot.m[<<pp, p>>] = @ + nb]

\* lines 1726-1733 (1917-1924)
ClosePair(a, f, p, pp, ps, nb) ==
    [a EXCEPT
       !.proteins_ctcts_prot.m[<<p, pp>>] = @ + nb,
       !.proteins_nb_neighbours[f][pp][ps] = @ + 1,
       !.proteins_ctcts_prot.m[<<pp, p>>] = @ + nb,
       !.tmp_pairs_treated = @ \cup {<<Min({p, pp}), Max({p, pp})>>}]

\* The group of a size; 0 stands for it when no --groups file is given and the
\* group is not looked at
GroupOfSize(c_size) == IF WithGroups THEN groups_sizes_dict[c_size] ELSE 0

\* lines 1700-1733 (1890-1924): one pair of neighbours not treated yet; the
\* dictionary of line 1716 (1907) has no entry for the group 'other'
TreatPairOf(a, f, p, pp, c_size, ps, pps, key, g, mask) ==
    IF WithGroups /\ g \notin DOMAIN a.proteins_ctcts_res_group[key]
    THEN [AddContacts(CountNeighbour(a, f, p, pps), key, c_size, mask)
             EXCEPT !.crashed = TRUE]
    ELSE ClosePair(
             AddHomoContacts(
                 AddGroupContacts(
                     AddContacts(CountNeighbour(a, f, p, pps), key, c_size, mask),
                     key, g, mask),
                 key, c_size, g, mask, ps, pps),
             f, p, pp, ps, MaskSum(mask))

TreatPair(a, f, p, pp, c_size, fr) ==
    TreatPairOf(a, f, p, pp, c_size, prot_index2sindex(p), prot_index2sindex(pp),
                SpeciesKey(prot_index2sindex(p), prot_index2sindex(pp)),
                GroupOfSize(c_size), PairMask(fr, p, pp))

\* lines 1689-1735 (1879-1926)
RECURSIVE BrowseNeighbours(_, _, _, _, _, _, _)
BrowseNeighbours(a, f, p, tmp_neighb, j, c_size, fr) ==
    IF a.crashed \/ j > Len(tmp_neighb) THEN a
    ELSE IF <<Min({p, tmp_neighb[j]}), Max({p, tmp_neighb[j]})>> \in a.tmp_pairs_treated
    THEN BrowseNeighbours(a, f, p, tmp_neighb, j + 1, c_size, fr)
    ELSE BrowseNeighbours(TreatPair(a, f, p, tmp_neighb[j], c_size, fr),
                          f, p, tmp_neighb, j + 1, c_size, fr)

\* Contacts of the residues of protein p with the phosphates of leaflet l,
\* np.sum(pop, axis = 1): a residue touches one phosphate of the leaflet it is
\* nearer to (delta > 0: nearer to the lower one).
LipidContacts(p, l) ==
    [r \in 0..(proteins_length[prot_index2sindex(p)] - 1) |->
        IF (Delta(p, r) > 0) = (l = "lower") THEN 1 ELSE 0]

AddVector(X, v) == [X EXCEPT !.m = [ij \in DOMAIN X.m |-> X.m[ij] + v[ij[1]]]]

\* lines 1852-1865
LipidSizeUpdate(a, p, ps, c_size) ==
    [a EXCEPT
       !.proteins_ctcts_res_lip_size =
           [l \in Leaflets |-> [@[l] EXCEPT ![ps] =
               IF c_size \in DOMAIN @
               THEN [@ EXCEPT ![c_size] = AddVector(@, LipidContacts(p, l))]
               ELSE Put(@, c_size,
                        AddVector(Zeros(proteins_length[ps], 1), LipidContacts(p, l)))]]]

\* lines 1868-1870; the dictionary has no entry for the group 'other'
LipidGroupUpdate(a, p, ps, g) ==
    IF ~WithGroups THEN a
    ELSE IF g \notin DOMAIN a.proteins_ctcts_res_lip_group["upper"][ps]
    THEN [a EXCEPT !.crashed = TRUE]
    ELSE [a EXCEPT
            !.proteins_ctcts_res_lip_group =
                [l \in Leaflets |-> [@[l] EXCEPT ![ps][g] =
                    AddVector(@, LipidContacts(p, l))]]]

\* lines 1851-1870
LipidUpdate(a, p, c_size) ==
    LipidGroupUpdate(LipidSizeUpdate(a, p, prot_index2sindex(p), c_size),
                     p, prot_index2sindex(p), GroupOfSize(c_size))

\* lines 1683 (1873)
CountSpecies(a, ps) == IF a.crashed THEN a ELSE [a EXCEPT !.tmp_comp[ps] = @ + 1]

\* lines 1672-1735 (1841-1926)
RECURSIVE BrowseProteins(_, _, _, _, _, _, _, _)
BrowseProteins(a, f, cluster, i, c_size, fr, network, tm) ==
    IF a.crashed \/ i > Len(cluster) THEN a
    ELSE BrowseProteins(
             BrowseNeighbours(
                 CountSpecies(IF tm THEN LipidUpdate(a, cluster[i], c_size) ELSE a,
                              prot_index2sindex(cluster[i])),
                 f, cluster[i], SetToSortedSeq(network[cluster[i]]), 1, c_size, fr),
             f, cluster, i + 1, c_size, fr, network, tm)

\* lines 1810-1830: where the cluster sits, from dist = dist_min_upper -
\* dist_min_lower of each of its particles
PositiveOrZeroDist(dist) == {pr \in dist : Delta(pr[1], pr[2]) >= 0}

\* line 1816: dist[dist>0]
PositiveDist(dist) == {pr \in dist : Delta(pr[1], pr[2]) > 0}

ClusterLocationOf(dist) ==
    IF Cardinality(PositiveDist(dist)) = Cardinality(dist) THEN "lower"
    ELSE IF Cardinality(PositiveDist(dist)) = 0 THEN "upper"
    ELSE "TM"

ClusterLocation(cluster) ==
    ClusterLocationOf(
        UNION {{<<cluster[i], r>> :
                  r \in 0..(proteins_length[prot_index2sindex(cluster[i])] - 1)} :
               i \in DOMAIN cluster})

WriteRowFirstOnly(row, cluster, v) ==
    [p \in DOMAIN row |-> IF cluster[1] = p THEN v ELSE row[p]]

\* proteins_size[f_index, cluster] = v
WriteRow(row, cluster, v) ==
    [p \in DOMAIN row |-> IF \E i \in DOMAIN cluster : cluster[i] = p THEN v ELSE row[p]]

CountRow(row, cluster) ==
    [p \in DOMAIN row |->
        row[p] + Cardinality({i \in DOMAIN cluster : cluster[i] = p})]

\* lines 1737-1743 (1928-1934)
StoreCompOf(a, c_size, of_size) ==
    [a EXCEPT !.clusters_comp =
        Put(@, c_size,
            Put(of_size, a.tmp_comp,
                IF a.tmp_comp \in DOMAIN of_size THEN of_size[a.tmp_comp] + 1 ELSE 1))]

StoreComp(a, c_size) ==
    IF a.crashed THEN a
    ELSE StoreCompOf(a, c_size,
                     IF c_size \in DOMAIN a.clusters_comp
                     THEN a.clusters_comp[c_size] ELSE EmptyDict)

\* lines 1660-1667 (1799, 1817, 1824, 1836): the size of the proteins of the cluster
SizeWritten(location, c_size) ==
    IF location = "lower" THEN LowerSize
    ELSE IF location = "upper" THEN UpperSize
    ELSE c_size

StoreSize(a, f, cluster, location) ==
    [a EXCEPT
       !.proteins_size[f] = WriteRow(@, cluster, SizeWritten(location, Len(cluster))),
       !.size_writes[f] = CountRow(@, cluster),
       !.browsed = Append(@, [cluster |-> cluster, location |-> location]),
       !.tmp_comp = [s \in Species |-> 0],
       !.tmp_pairs_treated = {}]

\* lines 1668-1669 (1818-1819, 1825-1826, 1837-1838)
StoreGroup(a, f, cluster, location) ==
    IF ~WithGroups THEN a
    ELSE IF location = "lower"
    THEN [a EXCEPT !.proteins_group[f] = WriteRow(@, cluster, LowerSize)]
    ELSE IF location = "upper"
    THEN [a EXCEPT !.proteins_group[f] = WriteRow(@, cluster, groups_number + 1)]
    ELSE IF Len(cluster) \notin DOMAIN groups_sizes_dict
    THEN [a EXCEPT !.crashed = TRUE]
    ELSE [a EXCEPT !.proteins_group[f] =
             WriteRow(@, cluster, groups_sizes_dict[Len(cluster)])]

BrowseClusterWhereverItIs(a, f, cluster, fr, network, location) ==
    StoreComp(
        BrowseProteins(
            StoreGroup(StoreSize(a, f, cluster, location), f, cluster, location),
            f, cluster, 1, Len(cluster), fr, network, location # "none"),
        Len(cluster))

\* lines 1652-1743 (1785-1934): one cluster; location is "none" when leaflets
\* are not looked at
BrowseCluster(a, f, cluster, fr, network, location) ==
    IF location \in {"lower", "upper"}
    THEN StoreGroup(StoreSize(a, f, cluster, location), f, cluster, location)
    ELSE StoreComp(
             BrowseProteins(
                 StoreGroup(StoreSize(a, f, cluster, location), f, cluster, location),
                 f, cluster, 1, Len(cluster), fr, network, location = "TM"),
             Len(cluster))

RECURSIVE BrowseClusters(_, _, _, _, _, _, _)
BrowseClusters(a, f, clusters, k, fr, network, tm) ==
    IF a.crashed \/ k > Len(clusters) THEN a
    ELSE BrowseClusters(BrowseCluster(a, f, clusters[k], fr, network,
                                      IF tm THEN ClusterLocation(clusters[k]) ELSE "none"),
                        f, clusters, k + 1, fr, network, tm)

\* lines 1641-1770
process_clusters(network, f, fr) ==
    BrowseClusters(Acc, f, connected_components(network, Proteins), 1, fr, network, FALSE)

\* lines 1771-1961
process_clusters_TM(network, f, fr) ==
    BrowseClusters(Acc, f, connected_components(network, Proteins), 1, fr, network, TRUE)

----
(* detect_clusters_density: DBSCAN on the precomputed distance matrix *)

NeighborhoodWithSelf(dist, nodes, i) ==
    {j \in nodes : dist[<<i, j>>] <= args.dbscan_dist} \cup {i}

\* sklearn, metric = 'precomputed': the points at a distance <= eps
Neighborhood(dist, nodes, i) == {j \in nodes : dist[<<i, j>>] <= args.dbscan_dist}

\* sklearn: a core sample has at least min_samples points in its neighbourhood
IsCore(dist, nodes, i) == Cardinality(Neighborhood(dist, nodes, i)) >= args.dbscan_nb

\* sklearn dbscan_inner: the unlabelled points reached from a core sample
RECURSIVE ExpandCluster(_, _, _, _, _)
ExpandCluster(dist, nodes, frontier, cluster, labelled) ==
    IF frontier = {} THEN cluster
    ELSE LET reached ==
                 (UNION {Neighborhood(dist, nodes, v) :
                         v \in {w \in frontier : IsCore(dist, nodes, w)}})
                 \ (cluster \cup labelled)
         IN ExpandCluster(dist, nodes, reached, cluster \cup reached, labelled)

\* sklearn dbscan_inner: labels_, -1 for noise
RECURSIVE DbscanLabels(_, _, _, _, _)
DbscanLabels(dist, nodes, i, labels, label_num) ==
    IF i \notin nodes THEN labels
    ELSE IF labels[i] # -1 \/ ~IsCore(dist, nodes, i)
    THEN DbscanLabels(dist, nodes, i + 1, labels, label_num)
    ELSE LET c == ExpandCluster(dist, nodes, {i}, {i}, {j \in nodes : labels[j] # -1})
         IN DbscanLabels(dist, nodes, i + 1,
                         [j \in nodes |-> IF j \in c THEN label_num ELSE labels[j]],
                         label_num + 1)

\* lines 1632-1638: the noise proteins are added one by one as bare indices
\* (list |-> FALSE), every other label as the list of its proteins
RECURSIVE BuildGroups(_, _, _)
BuildGroups(labels, nodes, todo) ==
    IF todo = {} THEN <<>>
    ELSE LET c_lab == Min(todo)
             tmp_pos == SetToSortedSeq({p \in nodes : labels[p] = c_lab})
         IN (IF c_lab = -1
             THEN [k \in DOMAIN tmp_pos |-> [list |-> FALSE, members |-> <<tmp_pos[k]>>]]
             ELSE <<[list |-> TRUE, members |-> tmp_pos]>>)
            \o BuildGroups(labels, nodes, todo \ {c_lab})

\* lines 1626-1640
detect_clusters_density(dist) ==
    LET nodes == {ij[1] : ij \in DOMAIN dist}
        labels == DbscanLabels(dist, nodes, 0, [j \in nodes |-> -1], 0)
    IN BuildGroups(labels, nodes, {labels[j] : j \in nodes})

----
(* load_MDA_universe: the frames to process *)

\* int(x / float(y)) for x >= 0, y > 0
IntDiv(x, y) == x \div y

\* lines 867-871
FramesToProcess(fs, fe, dt) ==
    LET tmp_offset == IF (fe - fs) % dt = 0 THEN 0 ELSE 1
    IN [f \in 1..((fe - fs) \div dt + tmp_offset) |-> fs + dt * (f - 1)]

\* lines 875-878, for the n frames to process; w is <<>> for the "no" that
\* args.frames_write_dt holds without -w (line 296), <<N>> for the number N
FramesToWrite(fs, fe, dt, w, n) ==
    [f \in 1..n |-> w # <<>> /\ ((f - 1) % w[1] = 0 \/ f - 1 = (fe - fs) \div dt)]

\* lines 810-880
load_MDA_universe ==
    /\ pc = "load_MDA_universe"
    /\ IF args.xtcfilename = "no"
       THEN /\ f_start' = 0
            /\ f_end' = 0
            /\ frames_to_process' = <<0>>
            /\ frames_to_write' = <<TRUE>>
            /\ nb_frames_to_process' = 1
            /\ pc' = "struct"
       ELSE LET nb_frames_xtc == universe.nb_frames_xtc
                U_timestep == universe.timestep
                too_short == (nb_frames_xtc - 1) * U_timestep < args.t_start * 1000
                fe == IF args.t_end # -1
                      THEN IntDiv(args.t_end * 1000, U_timestep)
                      ELSE nb_frames_xtc - 1
                fs == IF args.t_start # -1
                      THEN IntDiv(args.t_start * 1000, U_timestep)
                      ELSE 0
            IN IF too_short
               THEN /\ pc' = "exit"
                    /\ UNCHANGED <<f_start, f_end, frames_to_process, frames_to_write,
                                   nb_frames_to_process>>
               ELSE IF fe < 0
               THEN /\ pc' = "exit"
                    /\ f_end' = fe
                    /\ UNCHANGED <<f_start, frames_to_process, frames_to_write,
                                   nb_frames_to_process>>
               ELSE IF fs > fe
               THEN /\ pc' = "exit"
                    /\ f_start' = fs
                    /\ f_end' = fe
                    /\ UNCHANGED <<frames_to_process, frames_to_write, nb_frames_to_process>>
               ELSE /\ pc' = "struct"
                    /\ f_start' = fs
                    /\ f_end' = fe
                    /\ frames_to_process' = FramesToProcess(fs, fe, args.frames_dt)
                    /\ frames_to_write' =
                           FramesToWrite(fs, fe, args.frames_dt, args.frames_write_dt,
                                         Len(FramesToProcess(fs, fe, args.frames_dt)))
                    /\ nb_frames_to_process' = Len(FramesToProcess(fs, fe, args.frames_dt))
    /\ UNCHANGED <<varsArgs, varsGroups, universe, varsProteins, varsLoop, varsAcc,
                   varsStat, varsDensity>>

----
(* The main loop: one frame *)

StoreAcc(a) ==
    /\ proteins_size' = a.proteins_size
    /\ proteins_group' = a.proteins_group
    /\ proteins_nb_neighbours' = a.proteins_nb_neighbours
    /\ proteins_ctcts_prot' = a.proteins_ctcts_prot
    /\ proteins_ctcts_res' = a.proteins_ctcts_res
    /\ proteins_ctcts_res_size' = a.proteins_ctcts_res_size
    /\ proteins_ctcts_res_group' = a.proteins_ctcts_res_group
    /\ proteins_ctcts_res_lip_size' = a.proteins_ctcts_res_lip_size
    /\ proteins_ctcts_res_lip_group' = a.proteins_ctcts_res_lip_group
    /\ clusters_comp' = a.clusters_comp
    /\ size_writes' = a.size_writes

\* lines 4700-4704, 4726-4730
ProcessClusters(network, f, fr) ==
    IF args.cutoff_leaflet = "no"
    THEN process_clusters(network, f, fr)
    ELSE process_clusters_TM(network, f, fr)

\* lines 4715, 4732-4737: in a trajectory, the snapshot of a frame to write
\* starts with write_frame_stat, that goes through cluster_sizes_sampled (line
\* 4316), a name get_sizes_sampled defines once the loop is over (line 4752)
SnapshotFails == args.xtcfilename # "no" /\ frames_to_write[f_index + 1]

\* lines 1749-1751, 1761-1763 (1940-1942, 1952-1954): the line of a frame, its
\* number then the value of each protein, joined by "."; here the list of
\* these fields
AnnotationLine(nb, row) == <<nb>> \o [p \in 1..nb_proteins |-> row[p - 1]]

\* lines 1753, 1765 (1944, 1956): the buffers are written when the counter has
\* reached --buffer_size
BufferFull == vmd_counter = args.buffer_size

\* lines 1754, 4678-4679: the name of the file is given by
\* write_xtc_annotation("initialise"), which a run on a structure file alone
\* does not call
AnnotationFails ==
    args.xtcfilename = "no" /\ args.buffer_size # -1 /\ BufferFull

\* lines 1752-1756, 1764-1768 (1943-1947, 1955-1959): the buffer once the
\* line is added to it, emptied when it is written
Buffered(buffer, line) == IF BufferFull THEN <<>> ELSE Append(buffer, line)

\* the file, to which the buffer with its new line is appended when written
Appended(file, buffer, line) ==
    IF BufferFull THEN file \o Append(buffer, line) ELSE file

\* lines 1745-1768 (1936-1959): the end of process_clusters and of
\* process_clusters_TM, for the frame of number nb
AnnotateFrame(a, nb) ==
    IF args.buffer_size = -1 \/ a.crashed
    THEN UNCHANGED <<vmd_cluster_size, vmd_cluster_group,
                     output_xtc_annotate_cluster_size,
                     output_xtc_annotate_cluster_group>>
    ELSE IF AnnotationFails
    THEN /\ vmd_cluster_size' =
                Append(vmd_cluster_size, AnnotationLine(nb, a.proteins_size[f_index]))
         /\ UNCHANGED <<vmd_cluster_group, output_xtc_annotate_cluster_size,
                        output_xtc_annotate_cluster_group>>
    ELSE /\ vmd_cluster_size' =
                Buffered(vmd_cluster_size, AnnotationLine(nb, a.proteins_size[f_index]))
         /\ output_xtc_annotate_cluster_size' =
                Appended(output_xtc_annotate_cluster_size, vmd_cluster_size,
                         AnnotationLine(nb, a.proteins_size[f_index]))
         /\ IF WithGroups
            THEN /\ vmd_cluster_group' =
                        Buffered(vmd_cluster_group,
                                 AnnotationLine(nb, a.proteins_group[f_index]))
                 /\ output_xtc_annotate_cluster_group' =
                        Appended(output_xtc_annotate_cluster_group, vmd_cluster_group,
                                 AnnotationLine(nb, a.proteins_group[f_index]))
            ELSE UNCHANGED <<vmd_cluster_group, output_xtc_annotate_cluster_group>>

\* lines 4739-4744: the counter of the buffers, at the end of a turn of the
\* loop over the trajectory
CounterAfterFrame ==
    IF args.buffer_size = -1 THEN vmd_counter
    ELSE IF BufferFull THEN 0
    ELSE vmd_counter + 1

FrameProcessed(a) ==
    /\ StoreAcc(a)
    /\ AnnotateFrame(a, frames_nb'[f_index])
    /\ frames_clusters' = Put(frames_clusters, f_index, a.browsed)
    /\ pc' = IF a.crashed \/ AnnotationFails \/ SnapshotFails THEN "crashed" ELSE "frames"
    /\ f_index' = IF a.crashed \/ AnnotationFails \/ SnapshotFails
                  THEN f_index ELSE f_index + 1
    /\ vmd_counter' = IF a.crashed \/ SnapshotFails \/ args.xtcfilename = "no"
                      THEN vmd_counter ELSE CounterAfterFrame

\* lines 4688-4705 (structure file alone) and 4710-4744 (one turn of the loop over
\* the trajectory).  The density detection returns a list, which
\* nx.connected_components (line 1646, 1776) cannot browse: the run stops there.
process_frame ==
    /\ pc = "frames"
    /\ f_index < nb_frames_to_process
    /\ \E fr \in FrameContents :
         IF args.xtcfilename # "no"
            /\ frames_to_process[f_index + 1] >= universe.nb_frames_xtc
         THEN /\ pc' = "crashed"
              /\ UNCHANGED <<varsLoop, varsAcc, varsDensity>>
         ELSE /\ frames_nb' = [frames_nb EXCEPT
                                  ![f_index] = frames_to_process[f_index + 1] + 1]
              /\ frames_read' = Append(frames_read, frames_to_process[f_index + 1])
              /\ frames_dist' = Put(frames_dist, f_index, fr.dist)
              /\ frames_close' = Put(frames_close, f_index, fr.close)
              /\ IF args.m_algorithm = "density"
                 THEN /\ dbscan_dist_matrix' = fr.dist
                      /\ dbscan_groups' = detect_clusters_density(fr.dist)
                      /\ pc' = "crashed"
                      /\ frames_clusters' = Put(frames_clusters, f_index, <<>>)
                      /\ UNCHANGED <<f_index, size_writes, varsVmd, varsAcc>>
                 ELSE /\ FrameProcessed(
                             ProcessClusters(detect_clusters_connectivity(fr.dist),
                                             f_index, fr))
                      /\ UNCHANGED varsDensity
    /\ UNCHANGED <<varsArgs, varsGroups, varsUniverse, varsProteins, varsStat>>

----
(* get_sizes_sampled, update_color_dict, calculate_statistics *)

\* lines 1978-1982
SizesSampled == {proteins_size[f][p] : f \in DOMAIN proteins_size, p \in Proteins}

\* lines 2210-2221, 2230-2246: M / float(np.sum(M)) * 100 when the sum is not zero
Normalise(X) ==
    IF MatSum(X) > 0
    THEN [X EXCEPT !.m = [ij \in DOMAIN X.m |-> 100 * X.m[ij]], !.den = MatSum(X)]
    ELSE X

\* lines 2200-2203: each column divided by its sum when the sum is not zero
NormaliseColumns(X) ==
    [X EXCEPT !.den = [p \in Proteins |->
        LET tmp_sum == SumOver([q \in Proteins |-> X.m[<<q, p>>]], Proteins)
        IN IF tmp_sum > 0 THEN tmp_sum ELSE X.den[p]]]

\* lines 1984-1985: clusters_nb and clusters_pc as get_sizes_sampled creates them
SizesKeys(sizes) == {sizes[k] : k \in DOMAIN sizes} \cup {LowerSize, UpperSize}

ZeroPerFrame(keys, zero) ==
    [c_size \in keys |-> [f \in 0..(nb_frames_to_process - 1) |-> zero]]

\* line 2152, 2167: tmp_sizes.count(c_size)
CountSize(f, c_size) == Cardinality({p \in Proteins : proteins_size[f][p] = c_size})

\* lines 2155-2163: what calculate_statistics holds when it starts a frame
FrameStatInit(sizes) ==
    [nb |-> [c_size \in SizesKeys(sizes) |-> 0],
     pc |-> [c_size \in SizesKeys(sizes) |-> Frac(0, 1)],
     nb_groups |-> IF WithGroups THEN [g \in (-1)..(groups_number + 1) |-> 0]
                   ELSE EmptyDict,
     pc_groups |-> IF WithGroups THEN [g \in (-1)..(groups_number + 1) |-> Frac(0, 1)]
                   ELSE EmptyDict,
     max_nb |-> 0, max_pc |-> Frac(0, 1), max_size |-> 0,
     mostrep_nb |-> 0, mostrep_pc |-> Frac(0, 1), mostrep_size |-> 0]

StatOfSizeLeafletsIncluded(st, c_size, tmp_nb, tmp_pc) ==
    [st EXCEPT
       !.nb[c_size] = tmp_nb,
       !.pc[c_size] = tmp_pc,
       !.max_nb = IF tmp_nb > 0 /\ c_size > st.max_size THEN tmp_nb ELSE @,
       !.max_pc = IF tmp_nb > 0 /\ c_size > st.max_size THEN tmp_pc ELSE @,
       !.max_size = IF tmp_nb > 0 /\ c_size > st.max_size THEN c_size ELSE @,
       !.mostrep_nb = IF tmp_nb > 0 /\ FracGreater(tmp_pc, st.mostrep_pc)
                      THEN tmp_nb ELSE @,
       !.mostrep_pc = IF tmp_nb > 0 /\ FracGreater(tmp_pc, st.mostrep_pc)
                      THEN tmp_pc ELSE @,
       !.mostrep_size = IF tmp_nb > 0 /\ FracGreater(tmp_pc, st.mostrep_pc)
                        THEN c_size ELSE @]

\* lines 2171-2184: tmp_nb and tmp_pc of a size are stored, and taken for the
\* biggest and the most representative cluster of the frame
StatOfSize(st, c_size, tmp_nb, tmp_pc) ==
    [st EXCEPT
       !.nb[c_size] = tmp_nb,
       !.pc[c_size] = tmp_pc,
       !.max_nb = IF tmp_nb > 0 /\ c_size > st.max_size
                     /\ c_size # LowerSize /\ c_size # UpperSize
                  THEN tmp_nb ELSE @,
       !.max_pc = IF tmp_nb > 0 /\ c_size > st.max_size
                     /\ c_size # LowerSize /\ c_size # UpperSize
                  THEN tmp_pc ELSE @,
       !.max_size = IF tmp_nb > 0 /\ c_size > st.max_size
                       /\ c_size # LowerSize /\ c_size # UpperSize
                    THEN c_size ELSE @,
       !.mostrep_nb = IF tmp_nb > 0 /\ FracGreater(tmp_pc, st.mostrep_pc)
                         /\ c_size # LowerSize /\ c_size # UpperSize
                      THEN tmp_nb ELSE @,
       !.mostrep_pc = IF tmp_nb > 0 /\ FracGreater(tmp_pc, st.mostrep_pc)
                         /\ c_size # LowerSize /\ c_size # UpperSize
                      THEN tmp_pc ELSE @,
       !.mostrep_size = IF tmp_nb > 0 /\ FracGreater(tmp_pc, st.mostrep_pc)
                           /\ c_size # LowerSize /\ c_size # UpperSize
                        THEN c_size ELSE @,
       !.nb_groups = IF WithGroups /\ c_size # LowerSize /\ c_size # UpperSize
                     THEN [@ EXCEPT ![groups_sizes_dict[c_size]] = @ + tmp_nb]
                     ELSE @,
       !.pc_groups = IF WithGroups /\ c_size # LowerSize /\ c_size # UpperSize
                     THEN [@ EXCEPT ![groups_sizes_dict[c_size]] = FracAdd(@, tmp_pc)]
                     ELSE @]

SizeStatNotDivided(st, c_size, count) ==
    StatOfSize(st, c_size, count, Frac(100 * count, nb_proteins))

\* lines 2167-2170: the proteins of the size are counted; their number is
\* divided by the size unless the size stands for a leaflet
SizeStat(st, c_size, count) ==
    StatOfSize(st, c_size,
               IF c_size # LowerSize /\ c_size # UpperSize
               THEN IntDiv(count, c_size) ELSE count,
               Frac(100 * count, nb_proteins))

\* lines 2166-2184: the sizes sampled, in increasing order
RECURSIVE FrameStat(_, _, _, _)
FrameStat(st, f, sizes, k) ==
    IF k > Len(sizes) THEN st
    ELSE FrameStat(SizeStat(st, sizes[k], CountSize(f, sizes[k])), f, sizes, k + 1)

\* lines 2150-2194: the statistics of every frame
FramesStat(sizes) ==
    [f \in 0..(nb_frames_to_process - 1) |-> FrameStat(FrameStatInit(sizes), f, sizes, 1)]

\* lines 1993-1996: np.unique(proteins_group)
GroupsSampled ==
    IF WithGroups
    THEN {proteins_group[f][p] : f \in DOMAIN proteins_group, p \in Proteins}
    ELSE {}

\* lines 1997-2002
GroupsGmax(groups_sampled) ==
    IF \E k \in DOMAIN groups_sampled : groups_sampled[k] = groups_number
    THEN groups_number + 1 ELSE groups_number

\* lines 2276-2278, 2300-2302: tmp_n, tmp_mean and tmp_M2 of one species
WelfordInit == [n |-> 0, mean |-> Frac(0, 1), M2 |-> Frac(0, 1)]

\* lines 2283-2286 (2307-2310): one cluster whose fraction of the species is x;
\* delta is x less the mean before, and is multiplied by x less the mean after
WelfordUpdate(w, x, delta) ==
    [n |-> w.n + 1,
     mean |-> FracAdd(w.mean, FracDivInt(delta, w.n + 1)),
     M2 |-> FracAdd(w.M2,
                    FracMul(delta,
                            FracSub(x, FracAdd(w.mean, FracDivInt(delta, w.n + 1)))))]

\* line 2281 (2305): the nb clusters of one composition
RECURSIVE WelfordRepeat(_, _, _)
WelfordRepeat(w, x, nb) ==
    IF nb = 0 THEN w
    ELSE WelfordRepeat(WelfordUpdate(w, x, FracSub(x, w.mean)), x, nb - 1)

\* line 2280 (2304): the compositions met for a size, for species s_index
RECURSIVE WelfordOver(_, _, _, _, _)
WelfordNext(w, s_index, c_size, of_size, comps, comp) ==
    WelfordOver(WelfordRepeat(w, Frac(comp[s_index], c_size), of_size[comp]),
                s_index, c_size, of_size, comps \ {comp})

WelfordOver(w, s_index, c_size, of_size, comps) ==
    IF comps = {} THEN w
    ELSE WelfordNext(w, s_index, c_size, of_size, comps, CHOOSE comp \in comps : TRUE)

\* lines 2279-2286
WelfordOfSize(w, s_index, c_size) ==
    IF c_size # LowerSize /\ c_size # UpperSize
    THEN WelfordOver(w, s_index, c_size, clusters_comp[c_size], DOMAIN clusters_comp[c_size])
    ELSE w

\* lines 2288-2291 (2312-2315): for each species in turn the whole row of the
\* averages is given the means, and the whole row of the deviations the value
\* obtained from tmp_M2 and tmp_n of this species
RECURSIVE StdRow(_, _, _)
StdRow(row, w, s_index) ==
    IF s_index >= nb_species THEN row
    ELSE StdRow(IF w[s_index].n > 0
                THEN [s \in Species |-> FracDivInt(w[s_index].M2, w[s_index].n)]
                ELSE row,
                w, s_index + 1)

AvgRow(w) == [s \in Species |-> FracMul(w[s].mean, Frac(100, 1))]

ZeroRow == [s \in Species |-> Frac(0, 1)]

\* lines 2299-2310: the sizes sampled that belong to group g_index, in turn
RECURSIVE WelfordOfGroup(_, _, _, _, _)
WelfordOfGroup(w, s_index, g_index, sizes, k) ==
    IF k > Len(sizes) THEN w
    ELSE WelfordOfGroup(
             IF sizes[k] # LowerSize /\ sizes[k] # UpperSize
                /\ groups_sizes_dict[sizes[k]] = g_index
             THEN WelfordOfSize(w, s_index, sizes[k])
             ELSE w,
             s_index, g_index, sizes, k + 1)

\* lines 2269-2291, by size
CompStatOfSize(c_size) == [s \in Species |-> WelfordOfSize(WelfordInit, s, c_size)]

\* lines 2294-2315, by group
CompStatOfGroup(g_index, sizes) ==
    [s \in Species |-> WelfordOfGroup(WelfordInit, s, g_index, sizes, 1)]

\* lines 2269-2315
StoreCompStat(sizes, groups_sampled) ==
    /\ clusters_comp_avg' =
           [c_index \in 0..(Len(sizes) - 1) |->
               IF sizes[c_index + 1] # LowerSize /\ sizes[c_index + 1] # UpperSize
               THEN AvgRow(CompStatOfSize(sizes[c_index + 1]))
               ELSE ZeroRow]
    /\ clusters_comp_std' =
           [c_index \in 0..(Len(sizes) - 1) |->
               IF sizes[c_index + 1] # LowerSize /\ sizes[c_index + 1] # UpperSize
               THEN StdRow(ZeroRow, CompStatOfSize(sizes[c_index + 1]), 0)
               ELSE ZeroRow]
    /\ clusters_comp_avg_group' =
           IF WithGroups
           THEN [g_index \in 0..(GroupsGmax(groups_sampled) - 1) |->
                    IF \E k \in DOMAIN groups_sampled : groups_sampled[k] = g_index
                    THEN AvgRow(CompStatOfGroup(g_index, sizes))
                    ELSE ZeroRow]
           ELSE clusters_comp_avg_group
    /\ clusters_comp_std_group' =
           IF WithGroups
           THEN [g_index \in 0..(GroupsGmax(groups_sampled) - 1) |->
                    IF \E k \in DOMAIN groups_sampled : groups_sampled[k] = g_index
                    THEN StdRow(ZeroRow, CompStatOfGroup(g_index, sizes), 0)
                    ELSE ZeroRow]
           ELSE clusters_comp_std_group

\* lines 2173-2174, 2183-2184, 2187-2194
StoreStat(stat, keys) ==
    /\ clusters_nb' = [c_size \in keys |-> [f \in DOMAIN stat |-> stat[f].nb[c_size]]]
    /\ clusters_pc' = [c_size \in keys |-> [f \in DOMAIN stat |-> stat[f].pc[c_size]]]
    /\ clusters_nb_groups' =
           [g \in DOMAIN clusters_nb_groups |-> [f \in DOMAIN stat |-> stat[f].nb_groups[g]]]
    /\ clusters_pc_groups' =
           [g \in DOMAIN clusters_pc_groups |-> [f \in DOMAIN stat |-> stat[f].pc_groups[g]]]
    /\ clusters_biggest' =
           [nb |-> [f \in DOMAIN stat |-> stat[f].max_nb],
            pc |-> [f \in DOMAIN stat |-> stat[f].max_pc],
            size |-> [f \in DOMAIN stat |-> stat[f].max_size]]
    /\ clusters_mostrep' =
           [nb |-> [f \in DOMAIN stat |-> stat[f].mostrep_nb],
            pc |-> [f \in DOMAIN stat |-> stat[f].mostrep_pc],
            size |-> [f \in DOMAIN stat |-> stat[f].mostrep_size]]

\* lines 4752-4754; the minimum of line 2014 does not exist when no size of a
\* transmembrane cluster was sampled.  The averages of neighbours (lines
\* 2248-2267) are derived values that nothing later in the run reads back.
process_data ==
    /\ pc = "frames"
    /\ f_index >= nb_frames_to_process
    /\ cluster_sizes_sampled' = SetToSortedSeq(SizesSampled)
    /\ cluster_sizes_sampled_TM' = SetToSortedSeq(SizesSampled \ {LowerSize, UpperSize})
    /\ cluster_groups_sampled_TM' =
           IF WithGroups
           THEN SetToSortedSeq(GroupsSampled \ {LowerSize, groups_number + 1})
           ELSE cluster_groups_sampled_TM
    /\ IF SizesSampled \ {LowerSize, UpperSize} = {}
       THEN /\ pc' = "crashed"
            /\ clusters_nb' = ZeroPerFrame(SizesKeys(SetToSortedSeq(SizesSampled)), 0)
            /\ clusters_pc' =
                   ZeroPerFrame(SizesKeys(SetToSortedSeq(SizesSampled)), Frac(0, 1))
            /\ UNCHANGED <<clusters_nb_groups, clusters_pc_groups, clusters_biggest,
                           clusters_mostrep, clusters_comp_avg, clusters_comp_std,
                           clusters_comp_avg_group, clusters_comp_std_group>>
            /\ UNCHANGED varsAcc
       ELSE /\ pc' = "outputs"
            /\ StoreStat(FramesStat(SetToSortedSeq(SizesSampled)),
                         SizesKeys(SetToSortedSeq(SizesSampled)))
            /\ StoreCompStat(SetToSortedSeq(SizesSampled),
                             SetToSortedSeq(GroupsSampled \ {LowerSize, groups_number + 1}))
            /\ proteins_ctcts_prot' = NormaliseColumns(proteins_ctcts_prot)
            /\ proteins_ctcts_res' =
                   [ss \in DOMAIN proteins_ctcts_res |-> Normalise(proteins_ctcts_res[ss])]
            /\ proteins_ctcts_res_size' =
                   [ss \in DOMAIN proteins_ctcts_res_size |->
                       [c_size \in DOMAIN proteins_ctcts_res_size[ss] |->
                           Normalise(proteins_ctcts_res_size[ss][c_size])]]
            /\ proteins_ctcts_res_group' =
                   [ss \in DOMAIN proteins_ctcts_res_group |->
                       [g \in DOMAIN proteins_ctcts_res_group[ss] |->
                           Normalise(proteins_ctcts_res_group[ss][g])]]
            /\ proteins_ctcts_res_lip_size' =
                   IF args.cutoff_leaflet # "no"
                   THEN [l \in Leaflets |-> [s \in Species |->
                            [c_size \in DOMAIN proteins_ctcts_res_lip_size[l][s] |->
                                Normalise(proteins_ctcts_res_lip_size[l][s][c_size])]]]
                   ELSE proteins_ctcts_res_lip_size
            /\ proteins_ctcts_res_lip_group' =
                   IF args.cutoff_leaflet # "no"
                   THEN [l \in Leaflets |-> [s \in Species |->
                            [g \in DOMAIN proteins_ctcts_res_lip_group[l][s] |->
                                Normalise(proteins_ctcts_res_lip_group[l][s][g])]]]
                   ELSE proteins_ctcts_res_lip_group
            /\ UNCHANGED <<proteins_size, proteins_group, proteins_nb_neighbours,
                           clusters_comp>>
    /\ UNCHANGED <<varsArgs, varsGroups, varsUniverse, varsProteins, varsLoop, varsDensity,
                   files_written>>

----
(* process_oligomers *)

\* 0..k-1 gone through n times: the values a nest of loops gives its variable
RECURSIVE Times(_, _)
Times(k, n) == IF n = 0 THEN <<>> ELSE Times(k, n - 1) \o [i \in 1..k |-> i - 1]

\* new += M[n1*u1:(n1+1)*u1, n2*u2:(n2+1)*u2] for n1 going through rows and n2
\* through cols
SumBlocks(X, u1, u2, rows, cols) ==
    [X EXCEPT
       !.m = [ij \in Cells(u1, u2) |->
                SumOver([nn \in (DOMAIN rows) \X (DOMAIN cols) |->
                            X.m[<<rows[nn[1]] * u1 + ij[1], cols[nn[2]] * u2 + ij[2]>>]],
                        (DOMAIN rows) \X (DOMAIN cols))],
       !.r = u1,
       !.c = u2]

\* lines 2059, 2064, 2108: length of one unit of species s
UnitLength(s) == IntDiv(proteins_length[s], proteins_multiplicity[s])

\* lines 2065-2074, 2085-2092, 2109-2116, 2126-2131: matrix of a pair of species
\* and matrices by size
FoldMatrix(X, s1, s2) ==
    SumBlocks(X, UnitLength(s1), UnitLength(s2),
              Times(proteins_multiplicity[s1], 1), Times(proteins_multiplicity[s2], 1))

\* lines 2075-2081, 2093-2099, 2117-2122, 2132-2136: matrices by group; in the
\* case of line 2097 the loop over n1 is nested in a second loop over n1
FoldGroupMatrix(X, s1, s2) ==
    IF proteins_multiplicity[s1] > 1 /\ proteins_multiplicity[s2] <= 1
    THEN SumBlocks(X, UnitLength(s1), UnitLength(s2),
                   Times(proteins_multiplicity[s1], proteins_multiplicity[s1]), Times(1, 1))
    ELSE FoldMatrix(X, s1, s2)

OligomersToProcessBeforeStatistics ==
    pc = "frames" /\ f_index >= nb_frames_to_process /\ pres_oligomers

\* lines 4751-4762: process_oligomers is called under "produce outputs", once
\* get_sizes_sampled, update_color_dict and calculate_statistics have returned
OligomersToProcess == pc = "outputs" /\ pres_oligomers

\* lines 2043-2145, called at lines 4761-4762
process_oligomers ==
    /\ OligomersToProcess
    /\ pc' = "write"
    /\ proteins_length' = [s \in Species |-> UnitLength(s)]
    /\ proteins_ctcts_res' =
           [ss \in SpeciesPairs |-> FoldMatrix(proteins_ctcts_res[ss], ss[1], ss[2])]
    /\ proteins_ctcts_res_size' =
           [ss \in SpeciesPairs |->
               [c_size \in DOMAIN proteins_ctcts_res_size[ss] |->
                   FoldMatrix(proteins_ctcts_res_size[ss][c_size], ss[1], ss[2])]]
    /\ proteins_ctcts_res_group' =
           IF WithGroups
           THEN [ss \in SpeciesPairs |->
                    [g \in 0..(groups_number - 1) |->
                        FoldGroupMatrix(proteins_ctcts_res_group[ss][g], ss[1], ss[2])]]
           ELSE proteins_ctcts_res_group
    /\ UNCHANGED <<proteins_size, proteins_group, proteins_nb_neighbours,
                   proteins_ctcts_prot, proteins_ctcts_res_lip_size,
                   proteins_ctcts_res_lip_group, clusters_comp>>
    /\ UNCHANGED <<varsArgs, varsGroups, varsUniverse, proteins_nb, proteins_multiplicity,
                   varsLoop, varsStat, varsDensity>>

\* A value of the script with its type: in Python 2 an integer and a string
\* can be compared, and are never equal
PyInt(n) == <<"int", n>>

PyStr(x) == <<"str", x>>

PyEq(a, b) == a[1] = b[1] /\ a[2] = b[2]

\* line 4288: str(int(f_t)).zfill(5)
Zfill5(n) ==
    (IF n < 10 THEN "0000" ELSE IF n < 100 THEN "000" ELSE IF n < 1000 THEN "00"
     ELSE IF n < 10000 THEN "0" ELSE "") \o ToString(n)

\* lines 4285-4288, 4330-4333: the name of the file of a snapshot, in the folder
\* of the sizes or of the groups
SnapshotFile(what, f_t) ==
    IF args.xtcfilename = "no"
    THEN "1_snapshots/" \o what \o "/annotated_clusterprot_" \o what \o ".stat"
    ELSE "1_snapshots/" \o what \o "/annotated_clusterprot_" \o what \o "_"
             \o Zfill5(f_t[2]) \o "ns.stat"

\* lines 4191-4376: the files that write_frame_stat(f_nb, f_index, f_t) writes,
\* the summary of the run when f_index is "all", the statistics of frame
\* f_index otherwise
write_frame_stat(f_nb, f, f_t) ==
    IF PyEq(f, PyStr("all"))
    THEN {"4_clusters_sizes/annotated_clustprot_sizes_sampled.stat"} \cup
         (IF WithGroups THEN {"5_clusters_groups/annotated_clustprot_groups_sampled.stat"}
          ELSE {})
    ELSE {SnapshotFile("sizes", f_t)} \cup
         (IF WithGroups THEN {SnapshotFile("groups", f_t)} ELSE {})

\* lines 4792-4801, 4806-4832: write_frame_stat("all", 0, 0) when more than one
\* size was sampled, warning.stat (lines 2328-2350) otherwise
FinalStatistics(sizes_sampled) ==
    IF Len(sizes_sampled) > 1
    THEN write_frame_stat(PyStr("all"), PyInt(0), PyInt(0))
    ELSE {"warning.stat"}

\* lines 4489-4492, 4508-4510: the selections of the proteins joined by ".",
\* here the list of the indices of the proteins; tmp_prot_sele is not emptied
\* between the file of the sizes and the file of the groups
SelectionLine(times) == [k \in 1..(times * nb_proteins) |-> (k - 1) % nb_proteins]

\* lines 4494, 4512: str(min(...)) + "." + str(max(...))
RangeLine(sampled) ==
    <<Min({sampled[k] : k \in DOMAIN sampled}), Max({sampled[k] : k \in DOMAIN sampled})>>

\* lines 4481-4496, 4500-4514: what is left in the buffer is appended, then
\* the file is written again with two lines before its content
Finished(file, buffer, times, sampled) ==
    <<SelectionLine(times), RangeLine(sampled)>> \o (file \o buffer)

\* lines 4478-4514: write_xtc_annotation("finish"); min() of an empty list
\* raises
write_xtc_annotation_finish ==
    /\ output_xtc_annotate_cluster_size' =
           Finished(output_xtc_annotate_cluster_size, vmd_cluster_size, 1,
                    cluster_sizes_sampled)
    /\ IF ~WithGroups
       THEN /\ pc' = "done"
            /\ UNCHANGED output_xtc_annotate_cluster_group
       ELSE IF cluster_groups_sampled_TM = <<>>
       THEN /\ pc' = "crashed"
            /\ output_xtc_annotate_cluster_group' = <<SelectionLine(2)>>
       ELSE /\ pc' = "done"
            /\ output_xtc_annotate_cluster_group' =
                   Finished(output_xtc_annotate_cluster_group, vmd_cluster_group, 2,
                            cluster_groups_sampled_TM)

\* lines 4764-4838: the files are written and the script ends
write_outputs ==
    /\ \/ pc = "write"
       \/ pc = "outputs" /\ ~pres_oligomers
    /\ files_written' = FinalStatistics(cluster_sizes_sampled)
    /\ IF /\ Len(cluster_sizes_sampled) > 1
          /\ args.xtcfilename # "no"
          /\ args.buffer_size # -1
       THEN write_xtc_annotation_finish
       ELSE /\ pc' = "done"
            /\ UNCHANGED <<output_xtc_annotate_cluster_size,
                           output_xtc_annotate_cluster_group>>
    /\ UNCHANGED <<f_index, frames_nb, frames_read, frames_dist, frames_close,
                   frames_clusters, size_writes, vmd_counter, vmd_cluster_size,
                   vmd_cluster_group>>
    /\ UNCHANGED <<cluster_sizes_sampled, cluster_sizes_sampled_TM, clusters_nb, clusters_pc,
                   clusters_nb_groups, clusters_pc_groups, clusters_biggest,
                   clusters_mostrep, clusters_comp_avg, clusters_comp_std,
                   cluster_groups_sampled_TM, clusters_comp_avg_group,
                   clusters_comp_std_group>>
    /\ UNCHANGED <<varsArgs, varsGroups, varsUniverse, varsProteins, varsAcc,
                   varsDensity>>

----
(* States before the data structures are used *)

\* lines 293-313: the options as parsed when only the mandatory ones are given
\* with a structure file, a trajectory and --leaflets no
DefaultArgs ==
    [m_algorithm |-> "cog", nx_cutoff |-> 10, cutoff_leaflet |-> "no",
     cluster_groups_file |-> "no", xtcfilename |-> "traj.xtc",
     t_start |-> -1, t_end |-> -1, frames_dt |-> 1,
     frames_write_dt |-> <<>>, dbscan_dist |-> 20, dbscan_nb |-> 3,
     buffer_size |-> 100]

NoGroups ==
    /\ groups_file = <<>>
    /\ groups_number = 0
    /\ groups_boundaries = EmptyDict
    /\ groups_sizes_dict = EmptyDict

NoLoop ==
    /\ f_index = 0
    /\ frames_nb = <<>>
    /\ frames_read = <<>>
    /\ frames_dist = EmptyDict
    /\ frames_close = EmptyDict
    /\ frames_clusters = EmptyDict
    /\ size_writes = <<>>
    /\ vmd_counter = 0
    /\ vmd_cluster_size = <<>>
    /\ vmd_cluster_group = <<>>
    /\ output_xtc_annotate_cluster_size = <<>>
    /\ output_xtc_annotate_cluster_group = <<>>

NoAcc ==
    /\ proteins_size = <<>>
    /\ proteins_group = <<>>
    /\ proteins_nb_neighbours = <<>>
    /\ proteins_ctcts_prot = <<>>
    /\ proteins_ctcts_res = EmptyDict
    /\ proteins_ctcts_res_size = EmptyDict
    /\ proteins_ctcts_res_group = EmptyDict
    /\ proteins_ctcts_res_lip_size = EmptyDict
    /\ proteins_ctcts_res_lip_group = EmptyDict
    /\ clusters_comp = EmptyDict

NoStat ==
    /\ cluster_sizes_sampled = <<>>
    /\ cluster_sizes_sampled_TM = <<>>
    /\ clusters_nb = EmptyDict
    /\ clusters_pc = EmptyDict
    /\ clusters_nb_groups = EmptyDict
    /\ clusters_pc_groups = EmptyDict
    /\ clusters_biggest = EmptyDict
    /\ clusters_mostrep = EmptyDict
    /\ clusters_comp_avg = EmptyDict
    /\ clusters_comp_std = EmptyDict
    /\ cluster_groups_sampled_TM = <<>>
    /\ clusters_comp_avg_group = EmptyDict
    /\ clusters_comp_std_group = EmptyDict
    /\ files_written = {}

NoDensity ==
    /\ dbscan_dist_matrix = EmptyDict
    /\ dbscan_groups = <<>>

\* A trajectory of n frames, one per ns, of which all but the last are
\* processed with the default -b, -e and -t 1.
TrajectoryLoaded(n, motion, delta) ==
    /\ universe = [nb_frames_xtc |-> n, timestep |-> 1000, motion |-> motion,
                   delta |-> delta]
    /\ f_start = 0
    /\ f_end = n - 1
    /\ frames_to_process = FramesToProcess(0, n - 1, args.frames_dt)
    /\ frames_to_write = FramesToWrite(0, n - 1, args.frames_dt, args.frames_write_dt,
                                       Len(FramesToProcess(0, n - 1, args.frames_dt)))
    /\ nb_frames_to_process = Len(FramesToProcess(0, n - 1, args.frames_dt))

\* One species, or two with a single protein of the second one; a species is a
\* monomer or a dimer (set_proteins_database: the sequence of a species is the
\* sequence of its unit, multiplicity times).
ProteinsFound(layouts, multiplicities) ==
    /\ proteins_nb \in layouts
    /\ proteins_multiplicity \in [DOMAIN proteins_nb -> multiplicities]
    /\ proteins_length = [s \in DOMAIN proteins_nb |-> UnitLen * proteins_multiplicity[s]]

OneSpecies(n) == [s \in {0} |-> n]

TwoSpecies(n) == [s \in {0, 1} |-> IF s = 0 THEN n - 1 ELSE 1]

ThreeSpecies(n) == [s \in {0, 1, 2} |-> IF s = 0 THEN n - 2 ELSE 1]

\* A --groups file accepted by initialise_groups, and what it builds
GroupsLoaded(tables) ==
    /\ groups_file \in tables
    /\ groups_number = Len(groups_file)
    /\ groups_boundaries = ParseBoundaries(groups_file)
    /\ ~BoundariesError(ParseBoundaries(groups_file), Len(groups_file))
    /\ groups_sizes_dict = BuildSizesDict(ParseBoundaries(groups_file), Len(groups_file))

\* 1-1, 2-max
TableFull ==
    <<[beg |-> 1, end |-> 1, is_max |-> FALSE], [beg |-> 2, end |-> 0, is_max |-> TRUE]>>

\* 1-1, 3-max: size 2 is left to the group 'other'
TableHole ==
    <<[beg |-> 1, end |-> 1, is_max |-> FALSE], [beg |-> 3, end |-> 0, is_max |-> TRUE]>>

----
(* Specification of the --groups table alone *)

InitGroups ==
    /\ pc = "initialise_groups"
    /\ sys_argv = {"--nx_cutoff", "--groups"}
    /\ args = [DefaultArgs EXCEPT !.cluster_groups_file = "groups.txt"]
    /\ nx_cutoff_file = FALSE
    /\ cog_cutoff_values = EmptyDict
    /\ res_used = EmptyDict
    /\ groups_file \in GroupTables
    /\ groups_number = 0
    /\ groups_boundaries = EmptyDict
    /\ groups_sizes_dict = EmptyDict
    /\ TrajectoryLoaded(NbFrames + 1, "still", [p \in 0..(NbProteins - 1) |-> "across"])
    /\ ProteinsFound({OneSpecies(NbProteins)}, {1})
    /\ NoLoop /\ NoAcc /\ NoStat /\ NoDensity

NextGroups == initialise_groups

SpecGroups == InitGroups /\ [][NextGroups]_vars

----
(* Specification of a run without leaflets, from the data structures on *)

Init ==
    /\ pc = "struct"
    /\ \/ /\ args \in {[DefaultArgs EXCEPT !.cluster_groups_file = g] :
                          g \in {"no", "groups.txt"}}
          /\ sys_argv = {"--nx_cutoff"} \cup
                        (IF args.cluster_groups_file = "no" THEN {} ELSE {"--groups"})
       \/ /\ args = [DefaultArgs EXCEPT !.m_algorithm = "density"]
          /\ sys_argv = {"--nx_cutoff=10", "--algorithm", "density"}
    /\ ProteinsFound({OneSpecies(NbProteins), TwoSpecies(NbProteins)}, {1, 2})
    /\ nx_cutoff_file \in (IF Cardinality(DOMAIN proteins_nb) > 1 /\ args.m_algorithm = "cog"
                           THEN BOOLEAN ELSE {FALSE})
    /\ cog_cutoff_values =
           IF nx_cutoff_file
           THEN [ss \in {0, 1} \X {0, 1} |-> IF ss[1] = ss[2] THEN 10 ELSE 20]
           ELSE EmptyDict
    /\ res_used = EmptyDict
    /\ IF args.cluster_groups_file = "no" THEN NoGroups
       ELSE GroupsLoaded({TableFull, TableHole})
    /\ TrajectoryLoaded(NbFrames + 1, "moving", [p \in 0..(NbProteins - 1) |-> "across"])
    /\ NoLoop /\ NoAcc /\ NoStat /\ NoDensity

Next ==
    \/ struct_data
    \/ process_frame
    \/ process_data
    \/ process_oligomers
    \/ write_outputs

Spec == Init /\ [][Next]_vars

----
(* Specification of a run with leaflets, from the data structures on *)

\* Where each protein sits in the membrane all along the run.
DeltaProfiles == [0..(NbProteins - 1) -> {"below", "above", "across"}]

InitTM ==
    /\ pc = "struct"
    /\ args \in {[DefaultArgs EXCEPT !.cutoff_leaflet = "optimise",
                                     !.cluster_groups_file = g] :
                    g \in {"no", "groups.txt"}}
    /\ sys_argv = {"--nx_cutoff"} \cup
                  (IF args.cluster_groups_file = "no" THEN {} ELSE {"--groups"})
    /\ ProteinsFound({OneSpecies(NbProteins)}, {1})
    /\ nx_cutoff_file = FALSE
    /\ cog_cutoff_values = EmptyDict
    /\ res_used = EmptyDict
    /\ IF args.cluster_groups_file = "no" THEN NoGroups
       ELSE GroupsLoaded({TableFull, TableHole})
    /\ \E delta \in DeltaProfiles : TrajectoryLoaded(NbFrames + 1, "drift", delta)
    /\ NoLoop /\ NoAcc /\ NoStat /\ NoDensity

NextTM ==
    \/ struct_data
    \/ process_frame
    \/ process_data
    \/ write_outputs

SpecTM == InitTM /\ [][NextTM]_vars

----
(* Specification of the statistics of one frame, with and without leaflets *)

\* Number of proteins of a run whose statistics are looked at.
NbStatProteins == 4

InitStat ==
    /\ pc = "struct"
    /\ args \in {[DefaultArgs EXCEPT !.cutoff_leaflet = l] : l \in {"no", "optimise"}}
    /\ sys_argv = {"--nx_cutoff"}
    /\ ProteinsFound({OneSpecies(NbStatProteins)} \cup
                      (IF args.cutoff_leaflet = "no" THEN {ThreeSpecies(NbStatProteins)}
                       ELSE {}), {1})
    /\ nx_cutoff_file = FALSE
    /\ cog_cutoff_values = EmptyDict
    /\ res_used = EmptyDict
    /\ NoGroups
    /\ \E delta \in [0..(NbStatProteins - 1) -> {"below", "above", "across"}] :
          /\ args.cutoff_leaflet = "no" => \A p \in DOMAIN delta : delta[p] = "across"
          /\ TrajectoryLoaded(2, "drift", delta)
    /\ NoLoop /\ NoAcc /\ NoStat /\ NoDensity

NextStat ==
    \/ struct_data
    \/ process_frame
    \/ process_data
    \/ write_outputs

SpecStat == InitStat /\ [][NextStat]_vars

----
(* Specification of the files of annotations: --buffer_size on a trajectory *)

\* Number of proteins of a run whose annotations are looked at.
NbAnnotatedProteins == 2

\* Frames of the longest trajectory, of which all but the last are processed.
MaxAnnotatedFrames == 5

\* Largest --buffer_size given; -1 asks for no annotation (line 468).
MaxBufferSize == 2

InitAnnotation ==
    /\ pc = "load_MDA_universe"
    /\ \E b \in -1..MaxBufferSize, x \in {"no", "traj.xtc"}, g \in {"no", "groups.txt"} :
          args = [DefaultArgs EXCEPT !.buffer_size = b, !.xtcfilename = x,
                                     !.cluster_groups_file = g]
    /\ sys_argv = {"--nx_cutoff", "--buffer_size"} \cup
                  (IF args.cluster_groups_file = "no" THEN {} ELSE {"--groups"})
    /\ ProteinsFound({OneSpecies(NbAnnotatedProteins)}, {1})
    /\ nx_cutoff_file = FALSE
    /\ cog_cutoff_values = EmptyDict
    /\ res_used = EmptyDict
    /\ IF args.cluster_groups_file = "no" THEN NoGroups ELSE GroupsLoaded({TableFull})
    /\ \E n \in 1..MaxAnnotatedFrames :
          /\ args.xtcfilename = "no" => n = 1
          /\ universe = [nb_frames_xtc |-> n, timestep |-> 1000, motion |-> "drift",
                         delta |-> [p \in 0..(NbAnnotatedProteins - 1) |-> "across"]]
    /\ f_start = 0
    /\ f_end = 0
    /\ frames_to_process = <<>>
    /\ frames_to_write = <<>>
    /\ nb_frames_to_process = 0
    /\ NoLoop /\ NoAcc /\ NoStat /\ NoDensity

NextAnnotation ==
    \/ load_MDA_universe
    \/ struct_data
    \/ process_frame
    \/ process_data
    \/ write_outputs

SpecAnnotation == InitAnnotation /\ [][NextAnnotation]_vars

----
(* Specification of the choice of the frames: -b, -e and -t on a trajectory *)

MaxXtcFrames == 4

MaxTime == 3

MaxStride == 3

\* ps between two frames of the trajectory (U.trajectory.dt)
Timesteps == {500, 1000}

\* -b and -e in ns, -1 when not given (lines 296-297); the sanity check of
\* line 465 has let them through
TimeWindows ==
    {be \in ({-1} \cup 0..MaxTime) \X ({-1} \cup 0..MaxTime) :
        ~(be[2] # -1 /\ be[2] < be[1])}

\* line 296: what -w holds when it is given without a number, 10^15, more than
\* any number of frames; here a number above the frames of any trajectory
\* considered
FramesWriteDtConst == 1000000

\* No -w, -w 2, and -w alone
SnapshotOptions == {<<>>, <<2>>, <<FramesWriteDtConst>>}

InitFrames ==
    /\ pc = "load_MDA_universe"
    /\ \E be \in TimeWindows, dt \in 1..MaxStride, x \in {"no", "traj.xtc"},
          w \in SnapshotOptions :
          /\ x = "no" => be = <<-1, -1>> /\ dt = 1 /\ w = <<>>
          /\ args = [DefaultArgs EXCEPT !.t_start = be[1], !.t_end = be[2],
                                        !.frames_dt = dt, !.xtcfilename = x,
                                        !.frames_write_dt = w]
    /\ sys_argv = {"--nx_cutoff"}
    /\ ProteinsFound({OneSpecies(NbProteins)}, {1})
    /\ nx_cutoff_file = FALSE
    /\ cog_cutoff_values = EmptyDict
    /\ res_used = EmptyDict
    /\ NoGroups
    /\ \E n \in 1..MaxXtcFrames, ts \in Timesteps :
          /\ args.xtcfilename = "no" => n = 1 /\ ts = 1000
          /\ universe = [nb_frames_xtc |-> n, timestep |-> ts, motion |-> "still",
                         delta |-> [p \in 0..(NbProteins - 1) |-> "across"]]
    /\ f_start = 0
    /\ f_end = 0
    /\ frames_to_process = <<>>
    /\ frames_to_write = <<>>
    /\ nb_frames_to_process = 0
    /\ NoLoop /\ NoAcc /\ NoStat /\ NoDensity

NextFrames ==
    \/ load_MDA_universe
    \/ struct_data
    \/ process_frame
    \/ process_data
    \/ write_outputs

SpecFrames == InitFrames /\ [][NextFrames]_vars

----
(* Specification of the density detection on one frame *)

NbDensityProteins == 5

\* The default --db_radius 20 and --db_neighbours 3
InitDensity ==
    /\ pc = "struct"
    /\ args = [DefaultArgs EXCEPT !.m_algorithm = "density"]
    /\ sys_argv = {"--nx_cutoff=10", "--algorithm", "density"}
    /\ ProteinsFound({OneSpecies(NbDensityProteins)}, {1})
    /\ nx_cutoff_file = FALSE
    /\ cog_cutoff_values = EmptyDict
    /\ res_used = EmptyDict
    /\ NoGroups
    /\ TrajectoryLoaded(NbFrames + 1, "drift", [p \in 0..(NbDensityProteins - 1) |-> "across"])
    /\ NoLoop /\ NoAcc /\ NoStat /\ NoDensity

NextDensity ==
    \/ struct_data
    \/ process_frame

SpecDensity == InitDensity /\ [][NextDensity]_vars

----
(* The command line: argparse and the sanity checks *)

\* line 309: choices of --algorithm
Algorithms == {"cog", "min", "density"}

\* What argparse takes for --nx_cutoff (line 310): the option followed by its
\* value, the option and its value in one word, an unambiguous abbreviation.
\* Only the first one puts the word '--nx_cutoff' in sys.argv.
NxCutoffForms == {"--nx_cutoff", "--nx_cutoff=10", "--nx_cut"}

\* Options of the command lines gone through; sys_argv holds the options given
\* and the value given to --algorithm.
OtherOptions == {"-f", "-x", "-t", "-b", "--leaflets", "--db_radius", "--db_neighbours"}

CommandLines ==
    {o \cup a \cup n :
        o \in SUBSET OtherOptions,
        a \in {{}} \cup {{"--algorithm", v} : v \in Algorithms},
        n \in {{}} \cup {{x} : x \in NxCutoffForms}}

\* lines 290-320, 330-356: -t 1, -b 0, --leaflets no, --db_radius 20 and
\* --db_neighbours 3 when given
ParsedArgs(argv) ==
    [m_algorithm |-> IF "--algorithm" \in argv
                     THEN CHOOSE v \in Algorithms : v \in argv
                     ELSE "cog",
     nx_cutoff |-> 10,
     cutoff_leaflet |-> IF "--leaflets" \in argv THEN "no" ELSE "optimise",
     cluster_groups_file |-> "no",
     xtcfilename |-> IF "-x" \in argv THEN "traj.xtc" ELSE "no",
     t_start |-> IF "-b" \in argv THEN 0 ELSE -1,
     t_end |-> -1,
     frames_dt |-> IF "-t" \in argv THEN 1 ELSE 10,
     frames_write_dt |-> <<>>,
     dbscan_dist |-> 20,
     dbscan_nb |-> 3,
     buffer_size |-> 100]

\* lines 290-376: argparse leaves when a required option (-f, --nx_cutoff) is
\* missing
parse_args ==
    /\ pc = "parse_args"
    /\ IF "-f" \in sys_argv /\ sys_argv \cap NxCutoffForms # {}
       THEN /\ args' = ParsedArgs(sys_argv)
            /\ nx_cutoff_file' = FALSE
            /\ cog_cutoff_values' = EmptyDict
            /\ res_used' = EmptyDict
            /\ pc' = "check_args"
       ELSE /\ pc' = "exit"
            /\ UNCHANGED <<args, nx_cutoff_file, cog_cutoff_values, res_used>>
    /\ UNCHANGED <<sys_argv, varsGroups, varsUniverse, varsProteins, varsLoop, varsAcc,
                   varsStat, varsDensity>>

\* lines 446-600, the files named being there and the values being numbers
check_args ==
    /\ pc = "check_args"
    /\ pc' = IF args.t_end # -1 /\ args.t_end < args.t_start THEN "exit"
             ELSE IF args.xtcfilename = "no" /\ sys_argv \cap {"-t", "-b", "-e", "-w"} # {}
             THEN "exit"
             ELSE IF args.m_algorithm # "density"
                     /\ sys_argv \cap {"--db_radius", "--db_neighbours"} # {}
             THEN "exit"
             ELSE IF args.m_algorithm = "density" /\ "--nx_cutoff" \in sys_argv
             THEN "exit"
             ELSE "load_MDA_universe"
    /\ UNCHANGED <<varsArgs, varsGroups, varsUniverse, varsProteins, varsLoop, varsAcc,
                   varsStat, varsDensity>>

InitArgs ==
    /\ pc = "parse_args"
    /\ sys_argv \in CommandLines
    /\ args = EmptyDict
    /\ nx_cutoff_file = FALSE
    /\ cog_cutoff_values = EmptyDict
    /\ res_used = EmptyDict
    /\ ProteinsFound({OneSpecies(NbProteins)}, {1})
    /\ NoGroups
    /\ universe = [nb_frames_xtc |-> NbFrames + 1, timestep |-> 1000, motion |-> "still",
                   delta |-> [p \in 0..(NbProteins - 1) |-> "across"]]
    /\ f_start = 0
    /\ f_end = 0
    /\ frames_to_process = <<>>
    /\ frames_to_write = <<>>
    /\ nb_frames_to_process = 0
    /\ NoLoop /\ NoAcc /\ NoStat /\ NoDensity

NextArgs ==
    \/ parse_args
    \/ check_args
    \/ load_MDA_universe
    \/ struct_data
    \/ process_frame
    \/ process_data
    \/ write_outputs

SpecArgs == InitArgs /\ [][NextArgs]_vars

----
(* The configuration files: --nx_cutoff as a file, --res_used, and the checks *)
(* of identify_proteins on the species found                                  *)

MaxCutoffLines == 3

\* Species indices that a line of the --nx_cutoff file may name
SpeciesIndices == {0, 1, 2}

\* Cutoffs that a line of the --nx_cutoff file may give (Angstrom)
CutoffValues == {10, 20}

\* A line 's1,s2,cutoff' split at the commas (the lower index first, or '1,0,20'),
\* or a line with two fields only
CutoffLines ==
    {l \in SpeciesIndices \X SpeciesIndices \X CutoffValues : l[1] <= l[2]}
    \cup {<<1, 0, 20>>, <<0, 0>>}

RECURSIVE FilesOfLen(_, _)
FilesOfLen(lines, n) ==
    IF n = 0 THEN {<<>>}
    ELSE {Append(f, l) : f \in FilesOfLen(lines, n - 1), l \in lines}

CutoffFiles == UNION {FilesOfLen(CutoffLines, n) : n \in 0..MaxCutoffLines}

\* lines 501-522: the lines are read in order up to the first one that has not
\* three fields; each line stores its cutoff for (s1, s2) and for (s2, s1)
RECURSIVE ReadCutoffLines(_, _, _, _)
ReadCutoffLines(lines, l_index, values, s_indices) ==
    IF l_index > Len(lines)
    THEN [values |-> values, s_indices |-> s_indices, bad_line |-> FALSE]
    ELSE IF Len(lines[l_index]) # 3
    THEN [values |-> values, s_indices |-> s_indices, bad_line |-> TRUE]
    ELSE ReadCutoffLines(
             lines, l_index + 1,
             [ss \in (DOMAIN values) \cup {<<lines[l_index][1], lines[l_index][2]>>,
                                           <<lines[l_index][2], lines[l_index][1]>>} |->
                 IF ss \in {<<lines[l_index][1], lines[l_index][2]>>,
                            <<lines[l_index][2], lines[l_index][1]>>}
                 THEN lines[l_index][3]
                 ELSE values[ss]],
             s_indices \cup {lines[l_index][1], lines[l_index][2]})

CutoffsErrorIndicesOnly(values, s_indices_unique) ==
    \/ Min(s_indices_unique) # 0
    \/ Max(s_indices_unique) >= Cardinality(s_indices_unique)

\* lines 524-536: the indices start at 0, leave no gap, and every pair of them
\* has its cutoff
CutoffsError(values, s_indices_unique) ==
    \/ Min(s_indices_unique) # 0
    \/ Max(s_indices_unique) >= Cardinality(s_indices_unique)
    \/ \E s_index \in 0..(Cardinality(s_indices_unique) - 1),
          ss_index \in 0..(Cardinality(s_indices_unique) - 1) :
          <<s_index, ss_index>> \notin DOMAIN values

\* What the pass over the file in r leads to: a file without line has no
\* smallest index (ValueError at line 526)
CutoffsOutcome(r) ==
    IF r.bad_line THEN "exit"
    ELSE IF r.s_indices = {} THEN "crashed"
    ELSE IF CutoffsError(r.values, r.s_indices) THEN "exit"
    ELSE "read_res_used"

\* lines 489-536: --nx_cutoff is a number, or the name of a file
read_nx_cutoff ==
    /\ pc = "read_nx_cutoff"
    /\ \/ /\ pc' = "read_res_used"
          /\ UNCHANGED <<args, nx_cutoff_file, cog_cutoff_values>>
       \/ \E lines \in CutoffFiles :
             /\ args' = [args EXCEPT !.nx_cutoff = "cutoffs.txt"]
             /\ nx_cutoff_file' = TRUE
             /\ cog_cutoff_values' = ReadCutoffLines(lines, 1, EmptyDict, {}).values
             /\ pc' = CutoffsOutcome(ReadCutoffLines(lines, 1, EmptyDict, {}))
    /\ UNCHANGED <<sys_argv, res_used, varsGroups, varsUniverse, varsProteins, varsLoop,
                   varsAcc, varsStat, varsDensity>>

MaxResUsedLines == 2

\* A line 's_index,resid,...' split at the commas; <<>> is a line left blank
\* and <<0>> a line with its species index only
ResUsedLines == {<<>>, <<0>>, <<0, 5>>, <<0, 7>>, <<1, 5>>}

ResUsedFiles == UNION {FilesOfLen(ResUsedLines, n) : n \in 0..MaxResUsedLines}

\* lines 546-568: blank lines are skipped, a line with less than two fields
\* stops the run, the others store their residues; s_indices keeps one entry
\* per line stored
RECURSIVE ReadResUsedLines(_, _, _, _)
ReadResUsedLines(lines, l_index, stored, s_indices) ==
    IF l_index > Len(lines)
    THEN [res_used |-> stored, s_indices |-> s_indices, bad_line |-> FALSE]
    ELSE IF lines[l_index] = <<>>
    THEN ReadResUsedLines(lines, l_index + 1, stored, s_indices)
    ELSE IF Len(lines[l_index]) < 2
    THEN [res_used |-> stored, s_indices |-> s_indices, bad_line |-> TRUE]
    ELSE ReadResUsedLines(lines, l_index + 1,
                          Put(stored, lines[l_index][1], Tail(lines[l_index])),
                          Append(s_indices, lines[l_index][1]))

\* lines 572-575: a species with more than one list
ResUsedRepeated(s_indices) ==
    Len(s_indices) > Cardinality({s_indices[i] : i \in DOMAIN s_indices})

ResUsedOutcome(r) ==
    IF r.bad_line \/ ResUsedRepeated(r.s_indices) THEN "exit" ELSE "identify_proteins"

\* lines 540-575: --res_used names no file, or a file
read_res_used ==
    /\ pc = "read_res_used"
    /\ \/ /\ pc' = "identify_proteins"
          /\ UNCHANGED res_used
       \/ \E lines \in ResUsedFiles :
             /\ res_used' = ReadResUsedLines(lines, 1, EmptyDict, <<>>).res_used
             /\ pc' = ResUsedOutcome(ReadResUsedLines(lines, 1, EmptyDict, <<>>))
    /\ UNCHANGED <<sys_argv, args, nx_cutoff_file, cog_cutoff_values, varsGroups,
                   varsUniverse, varsProteins, varsLoop, varsAcc, varsStat, varsDensity>>

SpeciesWithoutCutoffNever(values) == FALSE

\* line 1158: nb_species > np.sqrt(len(cog_cutoff_values.keys()))
SpeciesWithoutCutoff(values) == nb_species * nb_species > Cardinality(DOMAIN values)

\* lines 1157-1163, then lines 4667-4669: with a file of cutoffs, the species
\* found must not be more than the indices of the file; with one species the
\* cutoff of (0, 0) is the one used
identify_proteins ==
    /\ pc = "identify_proteins"
    /\ IF nx_cutoff_file /\ SpeciesWithoutCutoff(cog_cutoff_values)
       THEN /\ pc' = "exit"
            /\ UNCHANGED args
       ELSE /\ pc' = IF args.cluster_groups_file # "no" THEN "initialise_groups"
                     ELSE "struct"
            /\ args' = IF nx_cutoff_file /\ nb_species = 1
                       THEN [args EXCEPT !.nx_cutoff = cog_cutoff_values[<<0, 0>>]]
                       ELSE args
    /\ UNCHANGED <<sys_argv, nx_cutoff_file, cog_cutoff_values, res_used, varsGroups,
                   varsUniverse, varsProteins, varsLoop, varsAcc, varsStat, varsDensity>>

\* 1-3, 3-max: size 3 is in two ranges
TableOverlap ==
    <<[beg |-> 1, end |-> 3, is_max |-> FALSE], [beg |-> 3, end |-> 0, is_max |-> TRUE]>>

\* 3-max, 1-2: the ranges are not in increasing order
TableUnsorted ==
    <<[beg |-> 3, end |-> 0, is_max |-> TRUE], [beg |-> 1, end |-> 2, is_max |-> FALSE]>>

\* The state when the files of the configuration are read, with the structure
\* and the trajectory that the run finds afterwards (load_MDA_universe raises
\* none of the errors followed here).
InitConfig ==
    /\ pc = "read_nx_cutoff"
    /\ args \in {[DefaultArgs EXCEPT !.cluster_groups_file = g] : g \in {"no", "groups.txt"}}
    /\ sys_argv = {"-f", "-x", "--nx_cutoff", "--res_used", "--leaflets"} \cup
                  (IF args.cluster_groups_file = "no" THEN {} ELSE {"--groups"})
    /\ nx_cutoff_file = FALSE
    /\ cog_cutoff_values = EmptyDict
    /\ res_used = EmptyDict
    /\ ProteinsFound({OneSpecies(NbProteins), TwoSpecies(NbProteins)}, {1})
    /\ groups_file \in (IF args.cluster_groups_file = "no" THEN {<<>>}
                        ELSE {TableFull, TableHole, TableOverlap, TableUnsorted})
    /\ groups_number = 0
    /\ groups_boundaries = EmptyDict
    /\ groups_sizes_dict = EmptyDict
    /\ TrajectoryLoaded(NbFrames + 1, "still", [p \in 0..(NbProteins - 1) |-> "across"])
    /\ NoLoop /\ NoAcc /\ NoStat /\ NoDensity

NextConfig ==
    \/ read_nx_cutoff
    \/ read_res_used
    \/ identify_proteins
    \/ initialise_groups
    \/ struct_data
    \/ process_frame
    \/ process_data
    \/ write_outputs

SpecConfig == InitConfig /\ [][NextConfig]_vars

----
(* Properties *)

RangesHolding(s) ==
    {g \in 0..(groups_number - 1) :
        groups_boundaries[g][1] <= s /\ s <= groups_boundaries[g][2]}

\* C4: once a --groups table is accepted, every size from 1 up to the cap of an
\* open-ended range has exactly one group index: the index of the one range that
\* holds it, or the index 'other' (the number of ranges) when no range holds it;
\* with the ranges 1-1, 2-5, 6-max the sizes 3 and 7 have the indices 1 and 2.
C4_EverySizeHasOneGroup ==
    pc = "struct" =>
        /\ \A s \in 1..SizeCap :
              /\ s \in DOMAIN groups_sizes_dict
              /\ Cardinality(RangesHolding(s)) <= 1
              /\ \A g \in RangesHolding(s) : groups_sizes_dict[s] = g
              /\ RangesHolding(s) = {} => groups_sizes_dict[s] = groups_number
        /\ groups_file = <<[beg |-> 1, end |-> 1, is_max |-> FALSE],
                            [beg |-> 2, end |-> 5, is_max |-> FALSE],
                            [beg |-> 6, end |-> 0, is_max |-> TRUE]>>
              => groups_sizes_dict[3] = 1 /\ groups_sizes_dict[7] = 2

\* An accepted table of two ranges that leaves sizes out below, between and
\* above them, all given the index 'other'.
C4_Witness ==
    /\ pc = "struct"
    /\ groups_number = 2
    /\ \E a, b, c \in 1..SizeCap :
          /\ a < groups_boundaries[0][1]
          /\ groups_boundaries[0][2] < b /\ b < groups_boundaries[1][1]
          /\ groups_boundaries[1][2] < c
          /\ groups_sizes_dict[a] = 2 /\ groups_sizes_dict[b] = 2
          /\ groups_sizes_dict[c] = 2

Connectivity == args.m_algorithm # "density"

FramesDone == 0..(f_index - 1)

ClustersOf(f, p) ==
    {k \in DOMAIN frames_clusters[f] :
        \E i \in DOMAIN frames_clusters[f][k].cluster :
            frames_clusters[f][k].cluster[i] = p}

C1_Partition ==
    Connectivity =>
        \A f \in FramesDone : \A p \in Proteins :
            /\ Cardinality(ClustersOf(f, p)) = 1
            /\ \A k \in ClustersOf(f, p) : Len(frames_clusters[f][k].cluster) >= 1
            /\ size_writes[f][p] = 1
            /\ proteins_size[f][p] # 0

C1_FrameRowKept ==
    \A f \in FramesDone : f \in DOMAIN proteins_size' /\ proteins_size'[f] = proteins_size[f]

\* C1: with the connectivity algorithm, the clusters of a processed frame
\* partition the proteins (each protein in exactly one cluster, of size >= 1), the
\* size of each protein for that frame is written exactly once, is not zero
\* afterwards, and no later step changes it.
C1_SizeWrittenOncePerFrame == [](C1_Partition) /\ [][C1_FrameRowKept]_vars

\* Two frames processed, the first with a cluster of several proteins, the
\* second with other sizes.
C1_Witness ==
    /\ Connectivity
    /\ f_index >= 2
    /\ \E k \in DOMAIN frames_clusters[0] : Len(frames_clusters[0][k].cluster) >= 2
    /\ proteins_size[0] # proteins_size[1]

CutoffOf(p, q) ==
    IF nx_cutoff_file /\ nb_species > 1
    THEN cog_cutoff_values[<<prot_index2sindex(p), prot_index2sindex(q)>>]
    ELSE args.nx_cutoff

InContact(dist, p, q) == p # q /\ dist[<<p, q>>] < CutoffOf(p, q)

PathOfContacts(dist, p, q) ==
    \E n \in 1..nb_proteins : \E path \in [1..n -> Proteins] :
        /\ path[1] = p
        /\ path[n] = q
        /\ \A i \in 1..(n - 1) : InContact(dist, path[i], path[i + 1])

\* C2: with the connectivity algorithm, two proteins are in the same cluster of a
\* frame exactly when a path of contacts below the cutoff links them, also when
\* their own distance is above the cutoff.
C2_SameClusterIffPath ==
    Connectivity =>
        \A f \in FramesDone : \A p, q \in Proteins :
            (ClustersOf(f, p) = ClustersOf(f, q)) <=> PathOfContacts(frames_dist[f], p, q)

\* A frame where A-B and B-C are in contact, A-C are not, and the three are in
\* one cluster.
C2_Witness ==
    /\ Connectivity
    /\ \E f \in FramesDone : \E a, b, c \in Proteins :
          /\ InContact(frames_dist[f], a, b)
          /\ InContact(frames_dist[f], b, c)
          /\ a # c /\ ~InContact(frames_dist[f], a, c)
          /\ ClustersOf(f, a) = ClustersOf(f, c)

EveryParticle(cluster, P(_, _)) ==
    \A i \in DOMAIN cluster :
        \A r \in 0..(proteins_length[prot_index2sindex(cluster[i])] - 1) : P(cluster[i], r)

DeltaPositive(p, r) == Delta(p, r) > 0

DeltaNotPositive(p, r) == ~(Delta(p, r) > 0)

HasSizeAndGroup(f, cluster, size, group) ==
    \A i \in DOMAIN cluster :
        /\ proteins_size[f][cluster[i]] = size
        /\ WithGroups => proteins_group[f][cluster[i]] = group

SumsTo100(X) == MatSum(X) = 0 \/ MatSum(X) = 100 * X.den

\* C6: at the end of the run every matrix of contacts between residues (overall,
\* by size of cluster, by group of sizes, for every pair of species) sums to 100
\* when contacts were added to it and is all zero otherwise.
C6_MatricesSumTo100 ==
    pc = "done" =>
        \A ss \in DOMAIN proteins_ctcts_res :
            /\ SumsTo100(proteins_ctcts_res[ss])
            /\ \A c_size \in DOMAIN proteins_ctcts_res_size[ss] :
                  SumsTo100(proteins_ctcts_res_size[ss][c_size])
            /\ WithGroups =>
                  \A g \in DOMAIN proteins_ctcts_res_group[ss] :
                      SumsTo100(proteins_ctcts_res_group[ss][g])

\* Entry (i, j) of the folded matrix: the entries (n1 * u1 + i, n2 * u2 + j) of
\* the k1 x k2 blocks of X, each block taken once.
BlocksOnce(X, k1, k2, u1, u2) ==
    [m |-> [ij \in Cells(u1, u2) |->
              SumOver([nn \in (0..(k1 - 1)) \X (0..(k2 - 1)) |->
                          X.m[<<nn[1] * u1 + ij[1], nn[2] * u2 + ij[2]>>]],
                      (0..(k1 - 1)) \X (0..(k2 - 1)))],
     r |-> u1, c |-> u2, den |-> X.den]

FoldedOnce(X, s1, s2) ==
    BlocksOnce(X, proteins_multiplicity[s1], proteins_multiplicity[s2],
               IntDiv(X.r, proteins_multiplicity[s1]),
               IntDiv(X.c, proteins_multiplicity[s2]))

C7_Step ==
    pc = "outputs" /\ pc' = "write" =>
        \A ss \in SpeciesPairs :
            /\ proteins_ctcts_res'[ss] = FoldedOnce(proteins_ctcts_res[ss], ss[1], ss[2])
            /\ \A c_size \in DOMAIN proteins_ctcts_res_size[ss] :
                  proteins_ctcts_res_size'[ss][c_size] =
                      FoldedOnce(proteins_ctcts_res_size[ss][c_size], ss[1], ss[2])
            /\ WithGroups =>
                  \A g \in DOMAIN proteins_ctcts_res_group[ss] :
                      proteins_ctcts_res_group'[ss][g] =
                          FoldedOnce(proteins_ctcts_res_group[ss][g], ss[1], ss[2])

\* C7: the folding of the oligomers gives every matrix of a pair of species
\* (overall, by size, by group) the dimensions length / multiplicity of its two
\* species, each entry being the sum of the entries of the blocks of the matrix
\* before, each block counted once; a pair without oligomer keeps its matrices.
C7_FoldedBlocksCountedOnce == [][C7_Step]_vars

NoiseProteins ==
    {p \in Proteins : \E k \in DOMAIN dbscan_groups :
        ~dbscan_groups[k].list /\ dbscan_groups[k].members = <<p>>}

\* C8: with the density algorithm, once a frame is read every protein has a size
\* in the row of the frame, written once, and the proteins labelled as noise
\* have size 1: none is dropped, none is merged with another.
C8_DensityNoiseSingletons ==
    args.m_algorithm = "density" /\ Len(frames_read) >= 1 =>
        /\ pc # "crashed"
        /\ \A p \in Proteins :
              /\ 0 \in DOMAIN size_writes /\ size_writes[0][p] = 1
              /\ proteins_size[0][p] >= 1
              /\ p \in NoiseProteins => proteins_size[0][p] = 1

\* The loop over the frames of the trajectory has ended, on a range of frames
\* that the trajectory holds.
LoopOver ==
    /\ pc = "frames"
    /\ f_index >= nb_frames_to_process
    /\ args.xtcfilename # "no"
    /\ f_end < universe.nb_frames_xtc

\* C5: the frames processed are f_start, f_start + t, f_start + 2t, ... up to
\* the largest one not above f_end, each once and in this order, also when t
\* divides f_end - f_start and when f_start = f_end.
C5_EveryStridedFrameOnce ==
    LoopOver =>
        frames_read = [i \in 1..((f_end - f_start) \div args.frames_dt + 1) |->
                          f_start + args.frames_dt * (i - 1)]

DensityRan == args.m_algorithm = "density" /\ dbscan_dist_matrix # EmptyDict

WithinEps(p, q) == dbscan_dist_matrix[<<p, q>>] <= args.dbscan_dist

MutuallyWithinEps(S) == \A p \in S, q \in S : p # q => WithinEps(p, q)

GroupsOf(n) == {S \in SUBSET Proteins : Cardinality(S) = n /\ MutuallyWithinEps(S)}

Isolated == {p \in Proteins : \A q \in Proteins \ {p} : ~WithinEps(p, q)}

InOneCluster(S) ==
    \E k \in DOMAIN dbscan_groups :
        /\ dbscan_groups[k].list
        /\ \A p \in S : \E i \in DOMAIN dbscan_groups[k].members :
              dbscan_groups[k].members[i] = p

EntriesOf(p) ==
    {k \in DOMAIN dbscan_groups :
        \E i \in DOMAIN dbscan_groups[k].members : dbscan_groups[k].members[i] = p}

AloneInGroups(p) ==
    /\ Cardinality(EntriesOf(p)) = 1
    /\ \A k \in EntriesOf(p) : dbscan_groups[k].members = <<p>>

\* Proteins 0, 1, 2 mutually within 10, proteins 3 and 4 farther than 30 from
\* every other protein, eps = 20, min_neighbors = 3
DensityExample ==
    /\ args.dbscan_dist = 20
    /\ args.dbscan_nb = 3
    /\ nb_proteins = 5
    /\ \A p \in Proteins, q \in Proteins :
          p # q => dbscan_dist_matrix[<<p, q>>] =
                       (IF p <= 2 /\ q <= 2 THEN Min(DensityDistances)
                        ELSE Max(DensityDistances))

EntriesOfLen(n) == {k \in DOMAIN dbscan_groups : Len(dbscan_groups[k].members) = n}

\* C9 as stated: min_neighbors proteins mutually within eps form one cluster, a
\* protein with no other within eps is a singleton, and the example gives one
\* cluster of 3 proteins and two singletons.
C9_DensityExample ==
    DensityRan =>
        /\ \A S \in GroupsOf(args.dbscan_nb) : InOneCluster(S)
        /\ \A p \in Isolated : AloneInGroups(p)
        /\ DensityExample =>
              /\ Len(dbscan_groups) = 3
              /\ Cardinality(EntriesOfLen(3)) = 1
              /\ Cardinality(EntriesOfLen(1)) = 2

\* C9, amended: the proteins counted are the other ones (the distance of a
\* protein to itself is SelfDistance), so min_neighbors + 1 proteins mutually
\* within eps form one cluster, a protein with no other within eps is noise on
\* its own, and in the example no protein has 3 others within 20: the five
\* proteins are five noise entries.
C9_DensityCountsOthers ==
    DensityRan =>
        /\ \A S \in GroupsOf(args.dbscan_nb + 1) : InOneCluster(S)
        /\ \A p \in Isolated : AloneInGroups(p) /\ \A k \in EntriesOf(p) : ~dbscan_groups[k].list
        /\ DensityExample =>
              /\ Len(dbscan_groups) = 5
              /\ \A k \in DOMAIN dbscan_groups : ~dbscan_groups[k].list

C9_WitnessGroupOfFour ==
    /\ DensityRan
    /\ args.dbscan_nb = 3
    /\ \E S \in GroupsOf(4) : Isolated = Proteins \ S /\ InOneCluster(S)

C9_Witness == DensityRan /\ DensityExample

\* --algorithm density with the mandatory -f and --nx_cutoff, and no option of
\* the trajectory without a trajectory
DensityCommandLine ==
    /\ {"--algorithm", "density", "-f"} \subseteq sys_argv
    /\ sys_argv \cap NxCutoffForms # {}
    /\ "-x" \notin sys_argv => sys_argv \cap {"-t", "-b", "-e", "-w"} = {}

\* C10: a command line with --algorithm density and the mandatory --nx_cutoff
\* is not turned down by the checks of the arguments, and its run does not stop
\* before the clusters of the frames are detected and processed.
C10_DensityCommandLineRuns == DensityCommandLine => pc \notin {"exit", "crashed"}

CutoffForEveryPair ==
    /\ nx_cutoff_file /\ nb_species > 1 =>
          \A s \in Species, ss \in Species : <<s, ss>> \in DOMAIN cog_cutoff_values
    /\ ~(nx_cutoff_file /\ nb_species > 1) => args.nx_cutoff \in CutoffValues

GroupsIncreasing ==
    \A g \in 0..(groups_number - 1) :
        /\ groups_boundaries[g][1] <= groups_boundaries[g][2]
        /\ g > 0 => groups_boundaries[g][1] > groups_boundaries[g - 1][2]

ResUsedWellFormed == \A s \in DOMAIN res_used : Len(res_used[s]) >= 1

\* C11: a fatal error of the configuration (cutoff missing for a pair of
\* species, ranges of sizes overlapping or not increasing, malformed file of
\* residues) stops the run before the first frame: when the run has stopped on
\* such an error no frame was processed and no accumulator exists, and when
\* the processing of the frames starts the configuration has none of these
\* errors left to raise.
C11_ConfigErrorsBeforeFrames ==
    /\ pc = "exit" => frames_read = <<>> /\ f_index = 0 /\ NoAcc
    /\ pc = "frames" \/ frames_read # <<>> =>
          CutoffForEveryPair /\ GroupsIncreasing /\ ResUsedWellFormed

\* The last of the checks, on the ranges of sizes, stops a run whose files of
\* cutoffs and of residues were accepted.
C11_Witness ==
    /\ pc = "exit"
    /\ nx_cutoff_file
    /\ res_used # EmptyDict
    /\ groups_number = 2
    /\ ~GroupsIncreasing

TableRead == pc # "initialise_groups" /\ groups_number > 0

CutoffTableAccepted ==
    nx_cutoff_file /\ pc \notin {"read_nx_cutoff", "exit", "crashed"}

IndicesMentioned == {ss[1] : ss \in DOMAIN cog_cutoff_values}

\* The table gives a cutoff to every ordered pair of the indices 0..N-1, the
\* same for (i, j) and (j, i), and names no other index
CompleteFor(N) ==
    /\ IndicesMentioned = 0..(N - 1)
    /\ DOMAIN cog_cutoff_values = (0..(N - 1)) \X (0..(N - 1))
    /\ \A ss \in DOMAIN cog_cutoff_values :
          cog_cutoff_values[ss] = cog_cutoff_values[<<ss[2], ss[1]>>]

\* C13: a table of cutoffs per pair of species is accepted only when the
\* indices it names are 0..N-1 without gap and every ordered pair of them has
\* a cutoff, the same in both orders; and the frames are processed only when
\* the system has no more than N species, every pair of species present then
\* having its cutoff.
C13_CutoffTableComplete ==
    /\ CutoffTableAccepted =>
          \E N \in 1..(Cardinality(IndicesMentioned) + 1) : CompleteFor(N)
    /\ nx_cutoff_file /\ (pc = "frames" \/ frames_read # <<>>) =>
          /\ nb_species * nb_species <= Cardinality(DOMAIN cog_cutoff_values)
          /\ \A s \in Species, ss \in Species : <<s, ss>> \in DOMAIN cog_cutoff_values

\* Frames processed with a table for two species whose mixed cutoff, given by
\* one line, differs from the cutoff of the first species with itself
C13_Witness ==
    /\ nx_cutoff_file
    /\ frames_read # <<>>
    /\ nb_species = 2
    /\ CompleteFor(2)
    /\ cog_cutoff_values[<<0, 1>>] # cog_cutoff_values[<<0, 0>>]

\* The frames are all processed and one value of cluster size was given to the
\* proteins all along
SingleSizeSampled ==
    /\ f_index >= nb_frames_to_process
    /\ f_index > 0
    /\ Cardinality(SizesSampled) = 1

\* C14: a run in which a single value of cluster size was sampled, the size of
\* a transmembrane cluster or the value standing for a leaflet, is not stopped:
\* it goes through the statistics and ends having written the warning file in
\* place of the statistics of the sizes.
C14_SingleSizeRunWarns ==
    SingleSizeSampled =>
       /\ pc # "crashed"
       /\ pc = "done" => files_written = {"warning.stat"}

\* The clusters browsed in frame f, without their location
ClustersBrowsed(f) == [k \in DOMAIN frames_clusters[f] |-> frames_clusters[f][k].cluster]

\* The clusters that the distances read in frame f give by themselves
ClustersGiven(f) ==
    connected_components(detect_clusters_connectivity(frames_dist[f]), Proteins)

\* The arrays of the run after its n first frames, computed again from what
\* these frames held
RECURSIVE AccAfter(_)
AccAfter(n) ==
    IF n = 0
    THEN StructAcc @@ [browsed |-> <<>>, tmp_comp |-> <<>>, tmp_pairs_treated |-> {},
                       crashed |-> FALSE]
    ELSE BrowseClusters([AccAfter(n - 1) EXCEPT !.browsed = <<>>, !.tmp_comp = <<>>,
                                                !.tmp_pairs_treated = {}],
                        n - 1, ClustersGiven(n - 1), 1,
                        [dist |-> frames_dist[n - 1], close |-> frames_close[n - 1]],
                        detect_clusters_connectivity(frames_dist[n - 1]),
                        args.cutoff_leaflet # "no")

SameAcc(a) ==
    /\ proteins_size = a.proteins_size
    /\ proteins_group = a.proteins_group
    /\ proteins_nb_neighbours = a.proteins_nb_neighbours
    /\ proteins_ctcts_prot = a.proteins_ctcts_prot
    /\ proteins_ctcts_res = a.proteins_ctcts_res
    /\ proteins_ctcts_res_size = a.proteins_ctcts_res_size
    /\ proteins_ctcts_res_group = a.proteins_ctcts_res_group
    /\ proteins_ctcts_res_lip_size = a.proteins_ctcts_res_lip_size
    /\ proteins_ctcts_res_lip_group = a.proteins_ctcts_res_lip_group
    /\ clusters_comp = a.clusters_comp

FramesFlagged == {f \in DOMAIN frames_to_write : frames_to_write[f]}

\* C16: with -w N on a trajectory the frames flagged for a snapshot are the
\* processed frames whose index is a multiple of N and the last processed
\* frame; with -w alone they are the first and the last processed frames.
C16_SnapshotsEveryNthAndLast ==
    /\ pc \notin {"load_MDA_universe", "exit"}
    /\ args.xtcfilename # "no"
    /\ args.frames_write_dt # <<>>
    => /\ FramesFlagged =
             {f \in 1..nb_frames_to_process :
                 (f - 1) % args.frames_write_dt[1] = 0 \/ f = nb_frames_to_process}
       /\ args.frames_write_dt[1] = FramesWriteDtConst =>
             FramesFlagged = {1, nb_frames_to_process} \cap 1..nb_frames_to_process

\* An oligomer has its length brought back to the length of its unit
Folded == \E s \in Species : proteins_multiplicity[s] > 1 /\ proteins_length[s] = UnitLen

\* calculate_statistics has returned
StatisticsComputed == pc \in {"outputs", "write", "done"}

FoldingStep == ~Folded /\ Folded'

\* C17 as stated: the folding of the oligomers happens once, when the frames are
\* all processed and the matrices of contacts are not yet turned to
\* percentages.
C17_FoldedBeforeNormalised ==
    [][/\ FoldingStep => f_index >= nb_frames_to_process /\ ~StatisticsComputed
       /\ Folded => UNCHANGED <<proteins_length, proteins_ctcts_res,
                                proteins_ctcts_res_size, proteins_ctcts_res_group>>]_vars

\* C17 amended: the folding of the oligomers happens once, when the frames are
\* all processed and calculate_statistics has turned the matrices of contacts
\* to percentages: it adds up blocks of percentages; a run with an oligomer
\* does not write its outputs without it, and nothing is folded again.
C17_FoldedOnceAfterNormalised ==
    [][/\ FoldingStep =>
             /\ f_index >= nb_frames_to_process
             /\ StatisticsComputed
             /\ \A ss \in DOMAIN proteins_ctcts_res : SumsTo100(proteins_ctcts_res[ss])
       /\ pc' = "done" /\ pc # "done" /\ pres_oligomers => Folded
       /\ Folded => UNCHANGED <<proteins_length, proteins_ctcts_res,
                                proteins_ctcts_res_size, proteins_ctcts_res_group>>]_vars

\* A run with a dimer ended, folded, with contacts between residues recorded
C17_Witness ==
    /\ pc = "done"
    /\ Folded
    /\ \E ss \in DOMAIN proteins_ctcts_res : MatSum(proteins_ctcts_res[ss]) > 0

\* The frames read so far, the one being processed when the run stopped included
FramesRead == DOMAIN frames_dist

\* C18: recording a contact never fails for want of a key: once a frame is
\* read, every two proteins in contact in it have, for their pair of species,
\* a matrix for the size of their cluster and, with groups of sizes, a matrix
\* for the group this size maps to, the group 'other' included, and the run
\* has not stopped.
C18_ContactKeysFoundOrAllocated ==
    Connectivity =>
       /\ pc # "crashed"
       /\ \A f \in FramesRead : \A p \in Proteins, q \in Proteins :
             p < q /\ InContact(frames_dist[f], p, q) =>
                /\ proteins_size[f][p] \in
                       DOMAIN proteins_ctcts_res_size[
                                  SpeciesKey(prot_index2sindex(p), prot_index2sindex(q))]
                /\ WithGroups =>
                       groups_sizes_dict[proteins_size[f][p]] \in
                           DOMAIN proteins_ctcts_res_group[
                                      SpeciesKey(prot_index2sindex(p), prot_index2sindex(q))]

IsTM(cluster) == ClusterLocation(cluster) = "TM"

\* The arrays of the run after its n first frames, had these frames held their
\* transmembrane clusters and nothing else
RECURSIVE AccOfTMClusters(_)
AccOfTMClusters(n) ==
    IF n = 0
    THEN StructAcc @@ [browsed |-> <<>>, tmp_comp |-> <<>>, tmp_pairs_treated |-> {},
                       crashed |-> FALSE]
    ELSE BrowseClusters([AccOfTMClusters(n - 1) EXCEPT !.browsed = <<>>, !.tmp_comp = <<>>,
                                                       !.tmp_pairs_treated = {}],
                        n - 1, SelectSeq(ClustersGiven(n - 1), IsTM), 1,
                        [dist |-> frames_dist[n - 1], close |-> frames_close[n - 1]],
                        detect_clusters_connectivity(frames_dist[n - 1]),
                        TRUE)

SameContacts(a) ==
    /\ proteins_nb_neighbours = a.proteins_nb_neighbours
    /\ proteins_ctcts_prot = a.proteins_ctcts_prot
    /\ proteins_ctcts_res = a.proteins_ctcts_res
    /\ proteins_ctcts_res_size = a.proteins_ctcts_res_size
    /\ proteins_ctcts_res_group = a.proteins_ctcts_res_group
    /\ proteins_ctcts_res_lip_size = a.proteins_ctcts_res_lip_size
    /\ proteins_ctcts_res_lip_group = a.proteins_ctcts_res_lip_group
    /\ clusters_comp = a.clusters_comp

Interfacial(f, k) == frames_clusters[f][k].location \in {"lower", "upper"}

\* C19: with leaflets, a cluster found at the lower or at the upper leaflet
\* gives its proteins their size and group and nothing else: they get no
\* neighbour in the frame, and the contacts between residues and between
\* proteins, the contacts with lipids and the compositions of clusters are
\* what the transmembrane clusters of the frames alone give.
C19_InterfacialClustersOnlyLabelled ==
    args.cutoff_leaflet # "no" /\ pc = "frames" =>
       /\ \A f \in FramesDone : \A k \in DOMAIN frames_clusters[f] :
             Interfacial(f, k) =>
                \A i \in DOMAIN frames_clusters[f][k].cluster :
                   /\ proteins_size[f][frames_clusters[f][k].cluster[i]]
                          \in {LowerSize, UpperSize}
                   /\ WithGroups =>
                          proteins_group[f][frames_clusters[f][k].cluster[i]]
                              \in {LowerSize, groups_number + 1}
                   /\ \A s \in Species :
                          proteins_nb_neighbours[f][frames_clusters[f][k].cluster[i]][s] = 0
       /\ SameContacts(AccOfTMClusters(f_index))

\* Two frames processed: one had proteins in contact in a cluster at a leaflet,
\* and contacts of a transmembrane cluster were recorded
C19_Witness ==
    /\ args.cutoff_leaflet # "no"
    /\ pc = "frames"
    /\ f_index = 2
    /\ \E f \in FramesDone : \E k \in DOMAIN frames_clusters[f] :
          Interfacial(f, k) /\ Len(frames_clusters[f][k].cluster) >= 2
    /\ \E ss \in DOMAIN proteins_ctcts_res : MatSum(proteins_ctcts_res[ss]) > 0

\* What frame f held, as read by the step that has just processed it
FrameRead(f) == [dist |-> frames_dist'[f], close |-> frames_close'[f]]

\* The pairs of proteins in contact in a frame, each pair once, whose species
\* make the key
PairsInContact(fr, key) ==
    {pq \in ProteinPairs :
        /\ InContact(fr.dist, pq[1], pq[2])
        /\ SpeciesKey(prot_index2sindex(pq[1]), prot_index2sindex(pq[2])) = key}

SameSpecies(pq) == prot_index2sindex(pq[1]) = prot_index2sindex(pq[2])

\* A matrix of contacts between residues with the residue contacts of a pair
\* added as they are found when the protein of higher index is the one browsed:
\* the mask, and its transpose too for a pair of one species
WithPair(X, mask, homo) == IF homo THEN AddMask(AddMask(X, mask), Transpose(mask))
                           ELSE AddMask(X, mask)

\* The same for the pairs of a set, each one once, in no particular order
RECURSIVE WithPairs(_, _, _)
WithPairsFrom(X, fr, pairs, pq) ==
    WithPairs(WithPair(X, PairMask(fr, pq[2], pq[1]), SameSpecies(pq)), fr, pairs \ {pq})

WithPairs(X, fr, pairs) ==
    IF pairs = {} THEN X ELSE WithPairsFrom(X, fr, pairs, CHOOSE pq \in pairs : TRUE)

\* Dictionary d of matrices after a frame, for its key k, against the same
\* before: the pairs added to the matrix before, a matrix of zeros when there
\* was none, and no new key without a pair
EntryGrownBy(d_after, d, k, zeros, fr, pairs) ==
    IF pairs = {}
    THEN (k \in DOMAIN d_after <=> k \in DOMAIN d) /\ (k \in DOMAIN d => d_after[k] = d[k])
    ELSE /\ k \in DOMAIN d_after
         /\ d_after[k] = WithPairs(IF k \in DOMAIN d THEN d[k] ELSE zeros, fr, pairs)

FrameStep == Connectivity /\ pc = "frames" /\ pc' = "frames" /\ f_index' = f_index + 1

C20_Neighbours(fr) ==
    \A p \in Proteins, s \in Species :
        proteins_nb_neighbours'[f_index][p][s] =
            Cardinality({q \in Proteins :
                            InContact(fr.dist, p, q) /\ prot_index2sindex(q) = s})

C20_Totals(fr) ==
    \A p \in Proteins, q \in Proteins :
        proteins_ctcts_prot'.m[<<p, q>>] - proteins_ctcts_prot.m[<<p, q>>] =
            IF InContact(fr.dist, p, q) THEN MaskSum(ResClose(fr, p, q)) ELSE 0

C20_ResiduesOf(fr, key, pairs) ==
    /\ proteins_ctcts_res'[key] = WithPairs(proteins_ctcts_res[key], fr, pairs)
    /\ \A c_size \in 1..nb_proteins :
          EntryGrownBy(proteins_ctcts_res_size'[key], proteins_ctcts_res_size[key], c_size,
                       Zeros(proteins_length[key[1]], proteins_length[key[2]]), fr,
                       {pq \in pairs : proteins_size'[f_index][pq[1]] = c_size})
    /\ WithGroups =>
          \A g \in DOMAIN proteins_ctcts_res_group[key] :
             EntryGrownBy(proteins_ctcts_res_group'[key], proteins_ctcts_res_group[key], g,
                          Zeros(proteins_length[key[1]], proteins_length[key[2]]), fr,
                          {pq \in pairs : proteins_group'[f_index][pq[1]] = g})

C20_Residues(fr) ==
    \A key \in SpeciesPairs : C20_ResiduesOf(fr, key, PairsInContact(fr, key))

\* C20: a frame adds to the arrays what its pairs of proteins in contact give,
\* each pair taken once and whichever of the two comes first: a neighbour to
\* each of the two, its number of residue contacts to the totals of the two,
\* its residue contacts to the matrices of its pair of species (overall, of the
\* size and of the group of its cluster); two proteins that are not in contact
\* add nothing, in the same cluster or not.
C20_AdjacentPairsOnce ==
    [][FrameStep =>
          /\ C20_Neighbours(FrameRead(f_index))
          /\ C20_Totals(FrameRead(f_index))
          /\ C20_Residues(FrameRead(f_index))]_vars

\* A frame was processed in which the three proteins made one cluster, the
\* first and the last not in contact, and residue contacts were recorded
C20_Witness ==
    /\ Connectivity
    /\ pc = "frames"
    /\ f_index >= 1
    /\ Len(frames_clusters[0]) = 1
    /\ InContact(frames_dist[0], 0, 1)
    /\ InContact(frames_dist[0], 1, 2)
    /\ ~InContact(frames_dist[0], 0, 2)
    /\ proteins_ctcts_prot.m[<<0, 1>>] > 0
    /\ proteins_ctcts_prot.m[<<0, 2>>] = 0

\* A square matrix equal to its transpose
Symmetric(X) ==
    /\ X.r = X.c
    /\ X.m = [ij \in DOMAIN X.m |-> X.m[<<ij[2], ij[1]>>]]

HomotypicKeys == {<<s, s>> : s \in Species}

\* The frames processed so far have left every matrix of a pair of one species
\* symmetric
C21_Symmetric ==
    Connectivity /\ pc \in {"frames", "outputs", "write", "done"} =>
       \A key \in HomotypicKeys :
          /\ Symmetric(proteins_ctcts_res[key])
          /\ \A c_size \in DOMAIN proteins_ctcts_res_size[key] :
                Symmetric(proteins_ctcts_res_size[key][c_size])
          /\ WithGroups =>
                \A g \in DOMAIN proteins_ctcts_res_group[key] :
                   Symmetric(proteins_ctcts_res_group[key][g])

\* Number of residue pairs in contact in the pairs of proteins of a set
RECURSIVE ResiduePairs(_, _)
ResiduePairsFrom(fr, pairs, pq) ==
    MaskSum(ResClose(fr, pq[1], pq[2])) + ResiduePairs(fr, pairs \ {pq})

ResiduePairs(fr, pairs) ==
    IF pairs = {} THEN 0 ELSE ResiduePairsFrom(fr, pairs, CHOOSE pq \in pairs : TRUE)

\* Total of the matrix that dictionary d holds for key k, 0 without a matrix
TotalOf(d, k) == IF k \in DOMAIN d THEN MatSum(d[k]) ELSE 0

\* The totals of the matrices of a pair of one species grow by twice the residue
\* pairs in contact of the frame
C21_TwiceOf(fr, key, pairs) ==
    /\ MatSum(proteins_ctcts_res'[key]) - MatSum(proteins_ctcts_res[key])
          = 2 * ResiduePairs(fr, pairs)
    /\ \A c_size \in 1..nb_proteins :
          TotalOf(proteins_ctcts_res_size'[key], c_size)
              - TotalOf(proteins_ctcts_res_size[key], c_size)
          = 2 * ResiduePairs(fr, {pq \in pairs : proteins_size'[f_index][pq[1]] = c_size})
    /\ WithGroups =>
          \A g \in DOMAIN proteins_ctcts_res_group[key] :
             MatSum(proteins_ctcts_res_group'[key][g])
                 - MatSum(proteins_ctcts_res_group[key][g])
             = 2 * ResiduePairs(fr, {pq \in pairs : proteins_group'[f_index][pq[1]] = g})

\* The pairs of proteins in contact that the frame records: with leaflets, those
\* of the transmembrane clusters
PairsRecorded(fr, key) ==
    {pq \in PairsInContact(fr, key) :
        proteins_size'[f_index][pq[1]] \notin {LowerSize, UpperSize}}

C21_Twice(fr) ==
    \A key \in HomotypicKeys : C21_TwiceOf(fr, key, PairsRecorded(fr, key))

\* The residue contacts of a pair of proteins of two species, the residues of
\* the protein of the species of lower index as rows
RowsOfLowerSpecies(fr, pq) ==
    IF prot_index2sindex(pq[1]) < prot_index2sindex(pq[2])
    THEN ResClose(fr, pq[1], pq[2])
    ELSE ResClose(fr, pq[2], pq[1])

RECURSIVE WithMasks(_, _, _)
WithMasksFrom(X, fr, pairs, pq) ==
    WithMasks(AddMask(X, RowsOfLowerSpecies(fr, pq)), fr, pairs \ {pq})

WithMasks(X, fr, pairs) ==
    IF pairs = {} THEN X ELSE WithMasksFrom(X, fr, pairs, CHOOSE pq \in pairs : TRUE)

\* The matrix of a pair of two species gets the mask of each of its pairs of
\* proteins in contact once
C21_Once(fr) ==
    \A key \in SpeciesPairs \ HomotypicKeys :
       proteins_ctcts_res'[key] =
           WithMasks(proteins_ctcts_res[key], fr, PairsRecorded(fr, key))

\* What a pair of neighbours adds to the matrices of residue contacts is the
\* same with p browsed and pp its neighbour as with pp browsed and p its
\* neighbour
SameEitherWay(a, b) ==
    /\ a.proteins_ctcts_res = b.proteins_ctcts_res
    /\ a.proteins_ctcts_res_size = b.proteins_ctcts_res_size
    /\ a.proteins_ctcts_res_group = b.proteins_ctcts_res_group
    /\ a.crashed = b.crashed

C21_EitherFirst(fr) ==
    \A pq \in ProteinPairs :
       /\ InContact(fr.dist, pq[1], pq[2])
       /\ proteins_size'[f_index][pq[1]] \notin {LowerSize, UpperSize}
       => SameEitherWay(
              TreatPair(Acc, f_index, pq[1], pq[2], proteins_size'[f_index][pq[1]], fr),
              TreatPair(Acc, f_index, pq[2], pq[1], proteins_size'[f_index][pq[1]], fr))

\* C21: a contact between two proteins of one species adds the mask of their
\* residue contacts and its transpose, so that the matrices of a pair of one
\* species (overall, by size, by group) stay symmetric and each frame adds to
\* their totals twice the residue pairs in contact; a contact between proteins
\* of two species adds the mask once, the species of lower index on the rows,
\* whichever of the two proteins is browsed first.
C21_HomotypicTwiceHeterotypicOnce ==
    /\ [](C21_Symmetric)
    /\ [][FrameStep =>
             /\ C21_Twice(FrameRead(f_index))
             /\ C21_Once(FrameRead(f_index))
             /\ C21_EitherFirst(FrameRead(f_index))]_vars

\* Two frames processed with two species: a pair of one species and a pair of
\* two species were in contact, with a mask of residue contacts that is not its
\* own transpose
C21_Witness ==
    /\ Connectivity
    /\ pc = "frames"
    /\ f_index = 2
    /\ nb_species = 2
    /\ \E f \in FramesDone :
          /\ frames_close[f] = "one"
          /\ InContact(frames_dist[f], 0, 1)
          /\ InContact(frames_dist[f], 1, 2)
    /\ MatSum(proteins_ctcts_res[<<0, 0>>]) > 0
    /\ MatSum(proteins_ctcts_res[<<0, 1>>]) > 0

\* The matrix of connections that detect_clusters_connectivity builds from the
\* distances read in frame f
Adjacency(f) == Connected(frames_dist[f])

\* The matrix adj has one row and one column per protein, holds for proteins p
\* and q whether dist is below the cutoff that applies to them, is symmetric
\* and connects no protein to itself
AdjacencyOf(adj, dist) ==
    /\ nx_cutoff_file /\ nb_species > 1 =>
          adj = [i \in 1..nb_proteins |-> [j \in 1..nb_proteins |->
                    dist[<<i - 1, j - 1>>]
                        < cog_cutoff_values[<<prot_index2sindex(i - 1),
                                              prot_index2sindex(j - 1)>>]]]
    /\ ~nx_cutoff_file =>
          adj = [i \in 1..nb_proteins |-> [j \in 1..nb_proteins |->
                    dist[<<i - 1, j - 1>>] < args.nx_cutoff]]
    /\ DOMAIN adj = 1..nb_proteins
    /\ \A i \in 1..nb_proteins :
          /\ DOMAIN adj[i] = 1..nb_proteins
          /\ ~adj[i][i]
          /\ \A j \in 1..nb_proteins : adj[i][j] = adj[j][i]

\* C22: in every frame read the matrix of connections has one row and one
\* column per protein and, for proteins i and j, holds whether their distance
\* is below the cutoff: with a table of cutoffs and more than one species the
\* cutoff of the species of i and of j, the blocks of the pairs of species being
\* put back side by side in the order of the proteins, with a single cutoff
\* this cutoff; it is symmetric and connects no protein to itself.
C22_AdjacencyFromCutoffs ==
    Connectivity => \A f \in FramesRead : AdjacencyOf(Adjacency(f), frames_dist[f])

\* A frame read with a table of cutoffs for two species: the two proteins of the
\* first species are at a distance that connects two proteins of different
\* species only, and so are the second protein and the protein of the other
\* species
C22_Witness ==
    /\ Connectivity
    /\ nx_cutoff_file
    /\ nb_species = 2
    /\ \E f \in FramesRead :
          /\ frames_dist[f][<<0, 1>>] = frames_dist[f][<<1, 2>>]
          /\ ~Adjacency(f)[1][2]
          /\ Adjacency(f)[2][3]
          /\ Adjacency(f)[3][2]

\* The orders in which the n first frames can be taken, each frame once
FrameOrders(n) ==
    {order \in [1..n -> 0..(n - 1)] : \A i \in 1..n, j \in 1..n : order[i] = order[j] => i = j}

\* The arrays of the run after the k first frames of an order, computed from
\* what these frames held
RECURSIVE AccInOrder(_, _)
AccInOrder(order, k) ==
    IF k = 0
    THEN StructAcc @@ [browsed |-> <<>>, tmp_comp |-> <<>>, tmp_pairs_treated |-> {},
                       crashed |-> FALSE]
    ELSE BrowseClusters([AccInOrder(order, k - 1) EXCEPT !.browsed = <<>>, !.tmp_comp = <<>>,
                                                         !.tmp_pairs_treated = {}],
                        order[k], ClustersGiven(order[k]), 1,
                        [dist |-> frames_dist[order[k]], close |-> frames_close[order[k]]],
                        detect_clusters_connectivity(frames_dist[order[k]]),
                        args.cutoff_leaflet # "no")

\* The cumulative arrays of the run are those of a
SameCumulative(a) ==
    /\ ~a.crashed
    /\ proteins_ctcts_res = a.proteins_ctcts_res
    /\ proteins_ctcts_res_size = a.proteins_ctcts_res_size
    /\ proteins_ctcts_res_group = a.proteins_ctcts_res_group
    /\ proteins_ctcts_prot = a.proteins_ctcts_prot
    /\ clusters_comp = a.clusters_comp

\* C23: the cumulative arrays (contacts between residues overall, by size and
\* by group, totals of contacts between proteins, compositions of clusters),
\* before they are turned to percentages, do not depend on the order of the
\* frames: the frames processed so far, taken once each in any order, give the
\* arrays that the run holds.
C23_FrameOrderIrrelevant ==
    Connectivity /\ pc = "frames" =>
       \A order \in FrameOrders(f_index) : SameCumulative(AccInOrder(order, f_index))

\* Two frames processed that did not hold the same clusters nor the same
\* residue contacts, each with proteins in contact
C23_Witness ==
    /\ Connectivity
    /\ pc = "frames"
    /\ f_index = 2
    /\ ClustersBrowsed(0) # ClustersBrowsed(1)
    /\ frames_close[0] # frames_close[1]
    /\ frames_close[0] # "none"
    /\ frames_close[1] # "none"
    /\ \A f \in FramesDone : \E pq \in ProteinPairs : InContact(frames_dist[f], pq[1], pq[2])
    /\ clusters_comp # EmptyDict

AllFrames == 0..(nb_frames_to_process - 1)

\* The proteins that frame f left with size c_size
ProteinsLabelled(f, c_size) == {p \in Proteins : proteins_size[f][p] = c_size}

\* The clusters browsed in frame f that gave their proteins the size c_size
ClustersLabelled(f, c_size) ==
    {k \in DOMAIN frames_clusters[f] :
        SizeWritten(frames_clusters[f][k].location, Len(frames_clusters[f][k].cluster))
            = c_size}

RECURSIVE SumOfPercentages(_, _, _)
SumOfPercentages(f, sizes, k) ==
    IF k > Len(sizes) THEN Frac(0, 1)
    ELSE FracAdd(clusters_pc[sizes[k]][f], SumOfPercentages(f, sizes, k + 1))

C24_OfSize(f, c_size, labelled) ==
    /\ c_size \notin {LowerSize, UpperSize} =>
          /\ labelled % c_size = 0
          /\ clusters_nb[c_size][f] * c_size = labelled
          /\ clusters_nb[c_size][f] = Cardinality(ClustersLabelled(f, c_size))
    /\ c_size \in {LowerSize, UpperSize} => clusters_nb[c_size][f] = labelled
    /\ clusters_pc[c_size][f] = Frac(100 * labelled, nb_proteins)

\* C24: once the statistics are calculated, for every frame and every size
\* sampled the number recorded is the number of proteins labelled with the size
\* in the frame divided by the size, a division without remainder that gives
\* the number of clusters of this size, or the number of proteins itself for
\* the values standing for the leaflets; the percentage recorded is the number
\* of proteins labelled over the number of proteins, times 100; and the
\* percentages of a frame add up to 100.
C24_NumberAndPercentagePerSize ==
    StatisticsComputed =>
       \A f \in AllFrames :
          /\ \A k \in DOMAIN cluster_sizes_sampled :
                C24_OfSize(f, cluster_sizes_sampled[k],
                           Cardinality(ProteinsLabelled(f, cluster_sizes_sampled[k])))
          /\ SumOfPercentages(f, cluster_sizes_sampled, 1) = Frac(100, 1)

\* Statistics calculated for a run with leaflets where a frame had a
\* transmembrane cluster of two proteins and a protein at a leaflet, and the
\* other frame a size that the first had not
C24_Witness ==
    /\ StatisticsComputed
    /\ args.cutoff_leaflet # "no"
    /\ 2 \in DOMAIN clusters_nb
    /\ \E f \in AllFrames :
          /\ clusters_nb[2][f] = 1
          /\ clusters_nb[LowerSize][f] + clusters_nb[UpperSize][f] = 1
    /\ \E f \in AllFrames, k \in DOMAIN cluster_sizes_sampled_TM :
          /\ clusters_nb[cluster_sizes_sampled_TM[k]][f] = 0
          /\ clusters_pc[cluster_sizes_sampled_TM[k]][f] = Frac(0, 1)

\* The sizes of the transmembrane clusters of frame f
SizesOfFrame(f) == {proteins_size[f][p] : p \in Proteins} \ {LowerSize, UpperSize}

\* The size of frame f that holds the most proteins, the smallest of such sizes
MostProteins(f) ==
    CHOOSE c_size \in SizesOfFrame(f) :
       \A other \in SizesOfFrame(f) :
          \/ Cardinality(ProteinsLabelled(f, other))
                < Cardinality(ProteinsLabelled(f, c_size))
          \/ /\ Cardinality(ProteinsLabelled(f, other))
                   = Cardinality(ProteinsLabelled(f, c_size))
             /\ c_size <= other

\* What is recorded for frame f in d is the size c_size with its number of
\* clusters and its percentage of the proteins
RecordedAs(d, f, c_size) ==
    /\ d.size[f] = c_size
    /\ d.nb[f] = Cardinality(ClustersLabelled(f, c_size))
    /\ d.pc[f] = Frac(100 * Cardinality(ProteinsLabelled(f, c_size)), nb_proteins)

NothingRecorded(d, f) == d.size[f] = 0 /\ d.nb[f] = 0 /\ d.pc[f] = Frac(0, 1)

ClustersObserved(sizes) ==
    {fk \in UNION {{<<f, k>> : k \in DOMAIN frames_clusters[f]} : f \in AllFrames} :
        /\ frames_clusters[fk[1]][fk[2]].location \notin {"lower", "upper"}
        /\ Len(frames_clusters[fk[1]][fk[2]].cluster) \in sizes}

\* Fraction of the proteins of a cluster that are of species s
FractionOf(cluster, s) ==
    Frac(Cardinality({i \in DOMAIN cluster : prot_index2sindex(cluster[i]) = s}),
         Len(cluster))

\* Sum over a set of clusters of the fraction of species s, and of its square
RECURSIVE SumOfFractions(_, _, _)
SumOfFractionsFrom(observed, s, squared, fk) ==
    FracAdd(IF squared
            THEN FracMul(FractionOf(frames_clusters[fk[1]][fk[2]].cluster, s),
                         FractionOf(frames_clusters[fk[1]][fk[2]].cluster, s))
            ELSE FractionOf(frames_clusters[fk[1]][fk[2]].cluster, s),
            SumOfFractions(observed \ {fk}, s, squared))

SumOfFractions(observed, s, squared) ==
    IF observed = {} THEN Frac(0, 1)
    ELSE SumOfFractionsFrom(observed, s, squared, CHOOSE fk \in observed : TRUE)

\* Mean of the fraction of species s over a set of clusters
MeanFraction(observed, s) ==
    FracDivInt(SumOfFractions(observed, s, FALSE), Cardinality(observed))

\* Population variance of the fraction of species s over a set of clusters:
\* the mean of the squares less the square of the mean
VarianceOfFraction(observed, s) ==
    FracSub(FracDivInt(SumOfFractions(observed, s, TRUE), Cardinality(observed)),
            FracMul(MeanFraction(observed, s), MeanFraction(observed, s)))

\* The row of averages holds for each species 100 times the mean of its
\* fraction, the row of deviations what gives, for each species, the
\* population standard deviation of its own fraction
C26_Rows(avg, std, observed) ==
    observed # {} =>
       \A s \in Species :
          /\ avg[s] = FracMul(MeanFraction(observed, s), Frac(100, 1))
          /\ std[s] = VarianceOfFraction(observed, s)

\* The sizes that the table of groups puts in group g
SizesOfGroup(g) == {c_size \in 1..nb_proteins : groups_sizes_dict[c_size] = g}

\* C26: once the statistics are calculated, for each size sampled (and each
\* group of sizes sampled) the statistics of composition hold for each species
\* the mean and the population standard deviation of the fraction of this
\* species over the clusters observed with that size (or group), the standard
\* deviation of a species coming from its own sum of squared deviations, for
\* any number of species.
C26_CompositionMeanAndDeviation ==
    StatisticsComputed =>
       /\ \A c_index \in DOMAIN clusters_comp_avg :
             cluster_sizes_sampled[c_index + 1] \notin {LowerSize, UpperSize} =>
                C26_Rows(clusters_comp_avg[c_index], clusters_comp_std[c_index],
                         ClustersObserved({cluster_sizes_sampled[c_index + 1]}))
       /\ WithGroups =>
             \A k \in DOMAIN cluster_groups_sampled_TM :
                C26_Rows(clusters_comp_avg_group[cluster_groups_sampled_TM[k]],
                         clusters_comp_std_group[cluster_groups_sampled_TM[k]],
                         ClustersObserved(SizesOfGroup(cluster_groups_sampled_TM[k])))

\* The step of the loop that processes a frame of a trajectory flagged for a
\* snapshot: the clusters of the frame are processed, then write_frame_stat is
\* called for it (lines 4732-4735)
SnapshotStep ==
    /\ pc = "frames"
    /\ args.xtcfilename # "no"
    /\ f_index + 1 \in DOMAIN frames_to_write
    /\ frames_to_write[f_index + 1]
    /\ f_index \notin DOMAIN frames_clusters
    /\ f_index \in DOMAIN frames_clusters'

\* What write_frame_stat reads for the snapshot of frame f (lines 4316-4321):
\* the list of the sizes sampled and, for each of them, the percentage of the
\* proteins for this frame
SnapshotStatisticsComputed(f) ==
    /\ StatisticsComputed
    /\ \A k \in DOMAIN cluster_sizes_sampled :
          /\ cluster_sizes_sampled[k] \in DOMAIN clusters_pc
          /\ f \in DOMAIN clusters_pc[cluster_sizes_sampled[k]]

\* C27: when the snapshot statistics of a flagged frame are written while the
\* trajectory is processed, the sizes sampled and the percentages per size of
\* this frame have already been calculated: the snapshot reads nothing that
\* only exists once the loop over the frames has ended.
C27_SnapshotReadsComputedStatistics ==
    [][SnapshotStep => SnapshotStatisticsComputed(f_index)]_vars

\* The lines of annotation of the frames processed so far, in the order of the
\* frames: of the sizes, or of the groups
LinesOfFrames(rows) ==
    [k \in 1..f_index |-> AnnotationLine(frames_nb[k - 1], rows[k - 1])]

\* The lines of frames found in a file, in the order of the file
LinesOfFramesIn(file, rows) ==
    SelectSeq(file, LAMBDA line : \E k \in 1..f_index : line = LinesOfFrames(rows)[k])

\* A run on a trajectory with the annotations buffered
AnnotationsBuffered == args.xtcfilename # "no" /\ args.buffer_size >= 0

\* While the frames are processed the file followed by the buffer holds the
\* line of every frame once, in order; the buffer is emptied every
\* buffer_size + 1 frames
BufferedInOrder(file, buffer, rows) ==
    /\ file \o buffer = LinesOfFrames(rows)
    /\ Len(buffer) = f_index % (args.buffer_size + 1)

\* C28: with the annotations buffered (buffer_size >= 0) on a trajectory, the
\* buffer never holds more than buffer_size + 1 lines, it is written and
\* emptied once every buffer_size + 1 frames without a line lost or written
\* twice, and when a run ends successfully the file holds the line of every
\* frame processed exactly once and in the order of the frames.
C28_EveryLineOnceInOrder ==
    AnnotationsBuffered =>
       /\ Len(vmd_cluster_size) <= args.buffer_size + 1
       /\ pc = "frames" =>
             /\ BufferedInOrder(output_xtc_annotate_cluster_size, vmd_cluster_size,
                                proteins_size)
             /\ WithGroups =>
                   BufferedInOrder(output_xtc_annotate_cluster_group, vmd_cluster_group,
                                   proteins_group)
       /\ pc = "done" =>
             /\ LinesOfFramesIn(output_xtc_annotate_cluster_size, proteins_size) =
                   LinesOfFrames(proteins_size)
             /\ WithGroups =>
                   LinesOfFramesIn(output_xtc_annotate_cluster_group, proteins_group) =
                      LinesOfFrames(proteins_group)

\* Entry-wise sum of the matrices of a dictionary, over some of its keys
RECURSIVE SumOfMatrices(_, _, _)
SumOfMatricesFrom(d, keys, zeros, k) ==
    [ij \in DOMAIN zeros |-> d[k].m[ij] + SumOfMatrices(d, keys \ {k}, zeros)[ij]]

SumOfMatrices(d, keys, zeros) ==
    IF keys = {} THEN zeros
    ELSE SumOfMatricesFrom(d, keys, zeros, CHOOSE k \in keys : TRUE)

\* The matrix of all the contacts of a pair of species is the sum of the
\* matrices of a dictionary of this pair
SumOfAll(X, d) == X.m = SumOfMatrices(d, DOMAIN d, Zeros(X.r, X.c).m)

\* C29: once frames are processed and before the matrices are turned to
\* percentages, for every pair of species the matrix of the contacts between
\* residues is the entry-wise sum of the matrices per size of cluster, over
\* the sizes met so far, and with groups of sizes it is also the entry-wise
\* sum of the matrices per group.
C29_OverallIsSumOfSizesAndGroups ==
    Connectivity /\ pc = "frames" =>
       \A ss \in DOMAIN proteins_ctcts_res :
          /\ SumOfAll(proteins_ctcts_res[ss], proteins_ctcts_res_size[ss])
          /\ WithGroups =>
                SumOfAll(proteins_ctcts_res[ss], proteins_ctcts_res_group[ss])

\* Two frames are processed with groups of sizes, contacts were recorded for
\* a pair of species in clusters of two sizes, which are of one group
C29_Witness ==
    /\ Connectivity
    /\ pc = "frames"
    /\ f_index = 2
    /\ WithGroups
    /\ \E ss \in DOMAIN proteins_ctcts_res :
          /\ \E c1 \in DOMAIN proteins_ctcts_res_size[ss],
                c2 \in DOMAIN proteins_ctcts_res_size[ss] :
                /\ c1 # c2
                /\ MatSum(proteins_ctcts_res_size[ss][c1]) > 0
                /\ MatSum(proteins_ctcts_res_size[ss][c2]) > 0
          /\ \E g \in DOMAIN proteins_ctcts_res_group[ss] :
                MatSum(proteins_ctcts_res_group[ss][g]) = MatSum(proteins_ctcts_res[ss])

\* C30: at the end of a run in which more than one size was sampled, the call
\* write_frame_stat("all", 0, 0) takes the branch of the summary: the file of
\* the sizes sampled over the run is written (and the file of the groups
\* sampled, with groups), and no file of statistics of the snapshot of frame 0.
C30_SummaryBranchTaken ==
    pc = "done" /\ Len(cluster_sizes_sampled) > 1 =>
       /\ "4_clusters_sizes/annotated_clustprot_sizes_sampled.stat" \in files_written
       /\ WithGroups =>
             "5_clusters_groups/annotated_clustprot_groups_sampled.stat" \in files_written
       /\ SnapshotFile("sizes", PyInt(0)) \notin files_written
       /\ SnapshotFile("groups", PyInt(0)) \notin files_written

====
